---------------------------- MODULE Spec2Model ----------------------------
(***************************************************************************)
(* A model of the QAPI schema compiler front end (scripts/qapi): the       *)
(* parser with its include handling (parser.py), the semantic model        *)
(* builder and the validator (schema.py), and the traversal protocol.      *)
(*                                                                         *)
(* A compilation runs through the phases                                   *)
(*   parse -> def -> check -> setmod -> ready -> visited                   *)
(* and stops in phase "error" as soon as an exception is raised.           *)
(***************************************************************************)
EXTENDS Integers, Sequences, FiniteSets, TLC

VARIABLES
    pstack,       \* the chain of QAPISchemaParser objects, root first
    included,     \* QAPISchemaParser._included, shared by the whole chain
    opened,       \* log of the files read by open(), in order
    exprs,        \* parser.exprs of the root parser, once it has returned
    phase,        \* position of QAPISchema.__init__ / visit
    err,          \* the exception that aborted the compilation, or NoErr
    entity_list,  \* QAPISchema._entity_list (the entities, in order)
    entity_dict,  \* QAPISchema._entity_dict: name -> index in entity_list
    module_dict,  \* QAPISchema._module_dict, in insertion order
    ci,           \* loop index of QAPISchema._def_exprs / check
    cstack,       \* the active QAPISchemaObjectType.check() calls
    visitlog,     \* the visitor callbacks made so far
    pragma,       \* the QAPISchemaPragma of the compilation
    vis           \* the QAPISchemaGenIntrospectVisitor of gen_introspect

vars == <<pstack, included, opened, exprs, phase, err, entity_list,
          entity_dict, module_dict, ci, cstack, visitlog, pragma, vis>>

(***************************************************************************)
(* Strings are sequences of tokens (a character, or a run of characters    *)
(* the code never looks into), so that prefixes, suffixes and single       *)
(* characters are what the code sees.  Python's None is the empty          *)
(* sequence for a name, NoInfo for a QAPISourceInfo, and an optional       *)
(* object is a sequence of length 0 or 1.                                  *)
(***************************************************************************)
NoName == <<>>
NoInfo == [fname |-> <<>>, line |-> 0]
SemError(msg, who, other) == [msg |-> msg, who |-> who, other |-> other]
NoErr == SemError("<ok>", NoName, NoName)

(***************************************************************************)
(* Bounds of the model.                                                    *)
(***************************************************************************)
MaxItems == 2      \* top-level items read from one file
MaxExprs == 4      \* expressions of one compilation
MaxLines == 5      \* comment lines of one documentation block
MaxCol == 10       \* characters of one line before the cursor
MaxPragmas == 3    \* pragma directives of one file

(***************************************************************************)
(* Sequence helpers.                                                       *)
(***************************************************************************)
Range(s) == {s[i] : i \in 1..Len(s)}
Last(s) == s[Len(s)]
Front(s) == SubSeq(s, 1, Len(s) - 1)
\* a name for a value: Bind(v, LAMBDA x : e) is e with x standing for v
Bind(v, F(_)) == F(v)

NoDup(s) == \A i, j \in 1..Len(s) : i # j => s[i] # s[j]

RECURSIVE SumLen(_)
SumLen(ss) == IF ss = <<>> THEN 0 ELSE Len(Head(ss)) + SumLen(Tail(ss))

(***************************************************************************)
(* Paths.  A path is a sequence of components; "." and ".." are            *)
(* components like any other until a path is normalised.  The compiler     *)
(* runs in the directory Cwd, where the root schema lives.                 *)
(***************************************************************************)
Cwd == <<"w">>

RECURSIVE normfold(_, _)
normfold(acc, p) ==
    IF p = <<>> THEN acc
    ELSE IF Head(p) = "." THEN normfold(acc, Tail(p))
    ELSE IF Head(p) = ".." THEN
        normfold(IF acc = <<>> THEN acc ELSE Front(acc), Tail(p))
    ELSE normfold(Append(acc, Head(p)), Tail(p))

\* os.path.abspath: join with the working directory, then normalise
abspath(p) == normfold(<<>>, Cwd \o p)

\* os.path.dirname, os.path.join (of a directory and a relative path)
dirname(p) == IF p = <<>> THEN <<>> ELSE Front(p)
join(d, p) == d \o p

RECURSIVE common(_, _)
common(a, b) ==
    IF a = <<>> \/ b = <<>> \/ Head(a) # Head(b) THEN 0
    ELSE 1 + common(Tail(a), Tail(b))

\* os.path.relpath(p, start)
relpath(p, start) ==
    Bind(abspath(p),
         LAMBDA a :
    Bind(abspath(start),
         LAMBDA s :
    Bind(common(a, s),
         LAMBDA k :
        [i \in 1..(Len(s) - k) |-> ".."] \o SubSeq(a, k + 1, Len(a)))))

\* The files that exist: the root schema w/a, w/b and w/sub/c.
RootFname == <<"a">>
ExistingFiles == {<<"w", "a">>, <<"w", "b">>, <<"w", "sub", "c">>}

\* The strings an include directive may carry.
IncludeStrings ==
    {<<"a">>, <<"b">>, <<".", "b">>, <<"sub", "c">>,
     <<"..", "a">>, <<"..", "b">>}

(***************************************************************************)
(* Parsed expressions (ParsedExpression): the expression, abstracted to    *)
(* what the model builder reads, and its QAPISourceInfo (file and line).   *)
(* An include expression carries incl_fname; a definition carries the      *)
(* payload the builder dispatches on.                                      *)
(***************************************************************************)
Info(fname, line) == [fname |-> fname, line |-> line]

IncludeExpr(info, incl_fname) ==
    [kind |-> "include", info |-> info, include |-> incl_fname,
     defn |-> <<>>]

DefExpr(info, defn) ==
    [kind |-> "def", info |-> info, include |-> <<>>, defn |-> <<defn>>]

\* QAPISchemaPragma.__init__
QAPISchemaPragma ==
    [doc_required |-> FALSE, returns_whitelist |-> <<>>,
     name_case_whitelist |-> <<>>]

\* QAPISchemaParser.__init__: the parser of one file, nothing read yet
NewParser(fname) ==
    [fname |-> fname, n |-> 0, exprs |-> <<>>, cur_doc |-> <<>>,
     doc |-> <<>>, lines |-> <<>>, src |-> <<>>, col |-> 0,
     pragmas |-> <<>>]

TopParser == Last(pstack)
ExprsSoFar == SumLen([i \in 1..Len(pstack) |-> pstack[i].exprs])

\* _include, "catch inclusion cycle": walk self.info and its parents
inclusion_loop_raw(stack, incl_fname) ==
    \E i \in 1..Len(stack) : incl_fname = stack[i].fname
inclusion_loop(stack, incl_fname) ==
    \E i \in 1..Len(stack) : abspath(incl_fname) = abspath(stack[i].fname)

\* _include, "skip multiple include of the same file"
already_included_never(incl_fname, incl_set) == FALSE
already_included(incl_fname, incl_set) == abspath(incl_fname) \in incl_set

\* an exception leaves QAPISchema.__init__: nothing after it runs
Raise_and_go_on(e) ==
    /\ err' = e
    /\ phase' = phase
Raise(e) ==
    /\ err' = e
    /\ phase' = "error"

(***************************************************************************)
(* QAPIDoc: a documentation block under construction.  A comment line is   *)
(* abstracted to its kind: "sym" ('@name:' alone), "symtext" ('@name:      *)
(* text'), "features" ('Features:'), "tag" ('Returns: text', 'Since:       *)
(* text'), "text" (other text that starts at the margin), "indented"       *)
(* (text after spaces), "blank".  A section's text is the sequence of its  *)
(* lines, TRUE for a line with text; its indent is whether it is above 0.  *)
(***************************************************************************)
DocLine(kind, name) == [kind |-> kind, name |-> name]
DocRes(doc, derr) == [doc |-> doc, err |-> derr]
DocError(msg, who) == SemError(msg, who, NoName)

\* QAPIDoc.Section.__init__, QAPIDoc.ArgSection.__init__
Section(kind, name, indent) ==
    [kind |-> kind, name |-> name, indent |-> indent, lines |-> <<>>]

\* QAPIDoc.__init__
QAPIDoc ==
    [symbol |-> NoName, mode |-> "body", args |-> <<>>, features |-> <<>>,
     sections |-> <<>>, section |-> Section("body", NoName, FALSE)]

\* section.text.endswith('\n\n'); not text.strip()
endswith_blank(lines) == Len(lines) >= 2 /\ ~Last(lines)
text_empty(lines) == \A i \in 1..Len(lines) : ~lines[i]

\* QAPIDoc.Section.append
Section_append(sec, blank, indented) ==
    IF ~blank /\ sec.indent /\ ~indented
    THEN [sec |-> sec, err |-> DocError("unexpected de-indent", sec.name)]
    ELSE [sec |-> [sec EXCEPT !.lines = Append(@, ~blank)], err |-> NoErr]

\* QAPIDoc._append_freeform, of what is left of a line: it starts with
\* '@name:' (at), it is empty (blank), it starts with spaces (indented)
_append_freeform(doc, at, blank, indented) ==
    IF at
    THEN DocRes(doc, DocError("not allowed in free-form documentation",
                              NoName))
    ELSE Bind(Section_append(doc.section, blank, indented),
              LAMBDA r : DocRes([doc EXCEPT !.section = r.sec], r.err))

\* _append_freeform(line) of a whole line
append_line(doc, line) ==
    _append_freeform(doc, line.kind \in {"sym", "symtext"},
                     line.kind = "blank", line.kind = "indented")

\* _append_freeform of a '@name:' or 'Tag:' line whose header was replaced
\* by spaces
append_rest(r, line) ==
    IF r.err # NoErr THEN r
    ELSE _append_freeform(r.doc, FALSE, line.kind = "sym",
                          line.kind # "sym")

\* QAPIDoc._end_section
_end_section(doc) ==
    IF doc.section.name # NoName /\ text_empty(doc.section.lines)
    THEN DocRes(doc, DocError("empty doc section", doc.section.name))
    ELSE DocRes(doc, NoErr)

\* QAPIDoc._start_symbol_section, on self.args or self.features
_start_symbol_section(doc, which, name, indent) ==
    IF name = NoName THEN DocRes(doc, DocError("invalid parameter name", name))
    ELSE IF name \in Range(IF which = "arg" THEN doc.args ELSE doc.features)
    THEN DocRes(doc, DocError("parameter name duplicated", name))
    ELSE IF doc.sections # <<>>
    THEN DocRes(doc, DocError("AssertionError: not self.sections", name))
    ELSE IF _end_section(doc).err # NoErr THEN _end_section(doc)
    ELSE DocRes([doc EXCEPT
                    !.section = Section(which, name, indent),
                    !.args = IF which = "arg" THEN Append(@, name) ELSE @,
                    !.features = IF which = "feature" THEN Append(@, name)
                                 ELSE @],
                NoErr)

\* QAPIDoc._start_section
_start_section(doc, name, indent) ==
    IF name \in {<<"Returns">>, <<"Since">>} /\ name \in Range(doc.sections)
    THEN DocRes(doc, DocError("duplicated section", name))
    ELSE IF _end_section(doc).err # NoErr THEN _end_section(doc)
    ELSE DocRes([doc EXCEPT !.section = Section("section", name, indent),
                            !.sections = Append(@, name)],
                NoErr)

IsSymbolLine(line) == line.kind \in {"sym", "symtext"}
\* QAPIDoc._is_section_tag
_is_section_tag(line) == line.kind = "tag"
\* "line and not line[0].isspace()", of a line that is not blank
at_margin(line) == line.kind # "indented"

\* QAPIDoc._append_various_line
_append_various_line(doc, line) ==
    IF IsSymbolLine(line) THEN
        IF doc.sections = <<>>
        THEN DocRes(doc, DocError("IndexError", line.name))
        ELSE DocRes(doc, SemError("can't follow section", line.name,
                                  doc.sections[1]))
    ELSE IF _is_section_tag(line)
    THEN append_rest(_start_section(doc, line.name, TRUE), line)
    ELSE append_line(doc, line)

to_various_samemode(r, line) ==
    IF r.err # NoErr THEN r ELSE _append_various_line(r.doc, line)
\* the switch to an additional section, made by the argument and the
\* features sections
to_various(r, line) ==
    IF r.err # NoErr THEN r
    ELSE _append_various_line([r.doc EXCEPT !.mode = "various"], line)

\* QAPIDoc._append_features_line
_append_features_line(doc, line) ==
    IF IsSymbolLine(line)
    THEN append_rest(_start_symbol_section(doc, "feature", line.name,
                                           line.kind = "symtext"), line)
    ELSE IF _is_section_tag(line) THEN to_various(DocRes(doc, NoErr), line)
    ELSE IF endswith_blank(doc.section.lines) /\ at_margin(line)
    THEN to_various(_start_section(doc, NoName, FALSE), line)
    ELSE append_line(doc, line)

_append_args_line_untagged(doc, line) ==
    IF IsSymbolLine(line)
    THEN append_rest(_start_symbol_section(doc, "arg", line.name,
                                           line.kind = "symtext"), line)
    ELSE IF _is_section_tag(line) THEN to_various(DocRes(doc, NoErr), line)
    ELSE IF endswith_blank(doc.section.lines) /\ at_margin(line)
    THEN to_various(_start_section(doc, NoName, FALSE), line)
    ELSE append_line(doc, line)
\* QAPIDoc._append_args_line
_append_args_line(doc, line) ==
    IF IsSymbolLine(line)
    THEN append_rest(_start_symbol_section(doc, "arg", line.name,
                                           line.kind = "symtext"), line)
    ELSE IF _is_section_tag(line) THEN to_various(DocRes(doc, NoErr), line)
    ELSE IF endswith_blank(doc.section.lines) /\ at_margin(line) THEN
        IF line.kind = "features"
        THEN DocRes([doc EXCEPT !.mode = "features"], NoErr)
        ELSE to_various(_start_section(doc, NoName, FALSE), line)
    ELSE append_line(doc, line)

\* QAPIDoc._append_body_line
_append_body_line(doc, line) ==
    IF doc.symbol = NoName /\ doc.section.lines = <<>> /\ IsSymbolLine(line)
    THEN IF line.kind = "symtext"
         THEN DocRes(doc, DocError("line should end with ':'", line.name))
         ELSE IF line.name = NoName
         THEN DocRes(doc, DocError("invalid name", line.name))
         ELSE DocRes([doc EXCEPT !.symbol = line.name], NoErr)
    ELSE IF doc.symbol # NoName THEN
        IF IsSymbolLine(line)
        THEN _append_args_line([doc EXCEPT !.mode = "args"], line)
        ELSE IF line.kind = "features"
        THEN DocRes([doc EXCEPT !.mode = "features"], NoErr)
        ELSE IF _is_section_tag(line)
        THEN _append_various_line([doc EXCEPT !.mode = "various"], line)
        ELSE append_line(doc, line)
    ELSE append_line(doc, line)

\* QAPIDoc.append
QAPIDoc_append(doc, line) ==
    IF line.kind = "blank" THEN append_line(doc, line)
    ELSE CASE doc.mode = "body" -> _append_body_line(doc, line)
           [] doc.mode = "args" -> _append_args_line(doc, line)
           [] doc.mode = "features" -> _append_features_line(doc, line)
           [] doc.mode = "various" -> _append_various_line(doc, line)

reject_expr_doc_never(doc) == FALSE
\* QAPISchemaParser.reject_expr_doc: does it raise, and what
reject_expr_doc(doc) == doc # <<>> /\ doc[1].symbol # NoName
NotFollowed(doc) ==
    SemError("documentation is not followed by the definition",
             doc[1].symbol, NoName)

(***************************************************************************)
(* _parse, one iteration of the loop on a documentation block: the block   *)
(* before it must not be a definition's; get_doc's block becomes cur_doc.  *)
(***************************************************************************)
ParseDoc(doc) ==
    /\ phase = "parse"
    /\ IF reject_expr_doc(TopParser.cur_doc) THEN
           /\ Raise(NotFollowed(TopParser.cur_doc))
           /\ UNCHANGED pstack
       ELSE
           /\ pstack' = [pstack EXCEPT ![Len(pstack)] =
                            [@ EXCEPT !.n = @ + 1, !.cur_doc = <<doc>>]]
           /\ UNCHANGED <<vis, phase, err>>
    /\ UNCHANGED <<vis, pragma, included, opened, exprs, entity_list, entity_dict,
                   module_dict, ci, cstack, visitlog>>

(***************************************************************************)
(* _parse, one iteration of the loop on a definition: _add_expr.           *)
(***************************************************************************)
ParseDef(defn) ==
    /\ phase = "parse"
    /\ ExprsSoFar < MaxExprs
    /\ LET me == TopParser
           doc == IF me.cur_doc # <<>> THEN me.cur_doc ELSE defn.doc
           e == DefExpr(Info(me.fname, me.n + 1), [defn EXCEPT !.doc = doc])
       IN  IF doc # <<>> /\ doc[1].symbol = NoName THEN
               /\ Raise(SemError("definition documentation required",
                                 defn.name, NoName))
               /\ UNCHANGED pstack
           ELSE
               /\ pstack' = [pstack EXCEPT ![Len(pstack)] =
                                [me EXCEPT !.n = me.n + 1,
                                           !.exprs = Append(me.exprs, e),
                                           !.cur_doc = <<>>]]
               /\ UNCHANGED <<vis, phase, err>>
    /\ UNCHANGED <<vis, pragma, included, opened, exprs, entity_list, entity_dict,
                   module_dict, ci, cstack, visitlog>>

(***************************************************************************)
(* _parse, one iteration of the loop on an include directive: _add_expr,   *)
(* then _include, which raises on a loop, skips a file already included    *)
(* or starts the parser of the included file (whose __init__ adds the      *)
(* file to _included and reads it).                                        *)
(***************************************************************************)
ParseInclude(include) ==
    /\ phase = "parse"
    /\ ExprsSoFar < MaxExprs
    /\ LET me == TopParser
           incl_fname == join(dirname(me.fname), include)
           e == IncludeExpr(Info(me.fname, me.n + 1), incl_fname)
           me2 == [me EXCEPT !.n = me.n + 1, !.exprs = Append(me.exprs, e),
                             !.cur_doc = <<>>]
           stack2 == [pstack EXCEPT ![Len(pstack)] = me2]
       IN  IF reject_expr_doc(me.cur_doc) THEN
               /\ Raise(NotFollowed(me.cur_doc))
               /\ UNCHANGED <<vis, pstack, included, opened>>
           ELSE IF inclusion_loop(pstack, incl_fname) THEN
               /\ Raise(SemError("inclusion loop", include, NoName))
               /\ pstack' = stack2
               /\ UNCHANGED <<vis, included, opened>>
           ELSE IF already_included(incl_fname, included) THEN
               /\ pstack' = stack2
               /\ UNCHANGED <<vis, included, opened, phase, err>>
           ELSE IF abspath(incl_fname) \notin ExistingFiles THEN
               /\ Raise(SemError("can't read include file", incl_fname, NoName))
               /\ pstack' = stack2
               /\ included' = included \cup {abspath(incl_fname)}
               /\ UNCHANGED opened
           ELSE
               /\ pstack' = Append(stack2, NewParser(incl_fname))
               /\ included' = included \cup {abspath(incl_fname)}
               /\ opened' = Append(opened, abspath(incl_fname))
               /\ UNCHANGED <<vis, phase, err>>
    /\ UNCHANGED <<vis, pragma, exprs, entity_list, entity_dict, module_dict, ci,
                   cstack, visitlog>>

(***************************************************************************)
(* _parse reaches the end of the file.  An included file's parser returns  *)
(* to _parse of the including file, which extends its exprs; the root      *)
(* parser returns to QAPISchema.__init__.                                  *)
(***************************************************************************)
ParseEOF ==
    /\ phase = "parse"
    /\ LET me == TopParser
       IN  IF reject_expr_doc(me.cur_doc) THEN
               /\ Raise(NotFollowed(me.cur_doc))
               /\ UNCHANGED <<vis, pstack, exprs>>
           ELSE IF Len(pstack) > 1 THEN
               LET parent == pstack[Len(pstack) - 1]
               IN  /\ pstack' = [Front(pstack) EXCEPT ![Len(pstack) - 1] =
                                    [parent EXCEPT !.exprs = @ \o me.exprs]]
                   /\ UNCHANGED <<vis, exprs, phase, err>>
           ELSE
               /\ pstack' = <<>>
               /\ exprs' = me.exprs
               /\ phase' = "parsed"
               /\ UNCHANGED err
    /\ UNCHANGED <<vis, pragma, included, opened, entity_list, entity_dict,
                   module_dict, ci, cstack, visitlog>>

(***************************************************************************)
(* Pragma directives.  A directive is the expression                       *)
(*   [keys: its keys, isDict: is the value of 'pragma' an object,          *)
(*    body: the (name, value) pairs of that object, in order]              *)
(* and a value is a boolean (bool is <<b>>), a list (isList, of elts, all  *)
(* of them strings if allstr) or something else.                           *)
(***************************************************************************)
PragmaValue(isList, elts) ==
    [isList |-> isList, elts |-> elts, allstr |-> TRUE, bool |-> <<>>]
BoolValue(b) ==
    [isList |-> FALSE, elts |-> <<>>, allstr |-> TRUE, bool |-> <<b>>]
MixedList(elts) ==
    [isList |-> TRUE, elts |-> elts, allstr |-> FALSE, bool |-> <<>>]
PragmaOption(name, value) == [name |-> name, value |-> value]
PragmaExpr(keys, isDict, body) ==
    [keys |-> keys, isDict |-> isDict, body |-> body]
PragmaRes(p, e) == [p |-> p, err |-> e]
PragmaError(msg) == SemError(msg, NoName, NoName)

\* QAPISchemaPragma._add_doc_required, _add_returns_whitelist,
\* _add_name_case_whitelist, after their type checks
_add_doc_required(p, value) == [p EXCEPT !.doc_required = value.bool[1]]
_add_returns_whitelist(p, value) == [p EXCEPT !.returns_whitelist = value.elts]
_add_name_case_whitelist(p, value) ==
    [p EXCEPT !.name_case_whitelist = value.elts]

\* "isinstance(value, list) and all elements are str"
list_of_str(value) == value.isList /\ value.allstr

\* QAPISchemaPragma.add, with the type checks of the _add_ functions
Pragma_add(p, name, value) ==
    CASE name = "doc-required" ->
             IF value.bool = <<>>
             THEN PragmaRes(p, PragmaError(
                                 "pragma 'doc-required' must be boolean"))
             ELSE PragmaRes(_add_doc_required(p, value), NoErr)
      [] name = "returns-whitelist" ->
             IF ~list_of_str(value)
             THEN PragmaRes(p, PragmaError(
                        "pragma returns-whitelist must be a list of strings"))
             ELSE PragmaRes(_add_returns_whitelist(p, value), NoErr)
      [] name = "name-case-whitelist" ->
             IF ~list_of_str(value)
             THEN PragmaRes(p, PragmaError(
                      "pragma name-case-whitelist must be a list of strings"))
             ELSE PragmaRes(_add_name_case_whitelist(p, value), NoErr)
      [] OTHER -> PragmaRes(p, PragmaError("unknown pragma"))

\* QAPISchemaPragma.parse, the loop over body.items()
RECURSIVE Pragma_add_all(_, _)
Pragma_add_all(p, body) ==
    IF body = <<>> THEN PragmaRes(p, NoErr)
    ELSE Bind(Pragma_add(p, Head(body).name, Head(body).value),
              LAMBDA r :
             IF r.err # NoErr THEN r ELSE Pragma_add_all(r.p, Tail(body)))

Pragma_parse_replace(p, expression) ==
    IF expression.keys # {"pragma"}
    THEN PragmaRes(p, PragmaError("invalid 'pragma' directive"))
    ELSE IF ~expression.isDict
    THEN PragmaRes(p, PragmaError("value of 'pragma' must be an object"))
    ELSE Pragma_add_all(QAPISchemaPragma, expression.body)
\* QAPISchemaPragma.parse
Pragma_parse(p, expression) ==
    IF expression.keys # {"pragma"}
    THEN PragmaRes(p, PragmaError("invalid 'pragma' directive"))
    ELSE IF ~expression.isDict
    THEN PragmaRes(p, PragmaError("value of 'pragma' must be an object"))
    ELSE Pragma_add_all(p, expression.body)

(***************************************************************************)
(* _parse, one iteration of the loop on a pragma directive: the block      *)
(* before it must not be a definition's; info.pragma.parse(expr).  The     *)
(* directive is not added to exprs; the parser's pragmas field keeps the   *)
(* directives handed to parse, for the properties below.                   *)
(***************************************************************************)
ParsePragmaExpr(expression) ==
    /\ phase = "parse"
    /\ IF reject_expr_doc(TopParser.cur_doc) THEN
           /\ Raise(NotFollowed(TopParser.cur_doc))
           /\ UNCHANGED <<vis, pstack, pragma>>
       ELSE
           \E r \in {Pragma_parse(pragma, expression)} :
               /\ pragma' = r.p
               /\ IF r.err # NoErr THEN
                      /\ Raise(r.err)
                      /\ pstack' = [pstack EXCEPT ![Len(pstack)] =
                                       [@ EXCEPT !.pragmas =
                                                    Append(@, expression)]]
                  ELSE
                      /\ pstack' = [pstack EXCEPT ![Len(pstack)] =
                                       [@ EXCEPT !.n = @ + 1,
                                                 !.cur_doc = <<>>,
                                                 !.pragmas =
                                                    Append(@, expression)]]
                      /\ UNCHANGED <<vis, phase, err>>
    /\ UNCHANGED <<vis, included, opened, exprs, entity_list, entity_dict,
                   module_dict, ci, cstack, visitlog>>

\* a directive whose body has the key 'returns-whitelist' only
ParsePragma(value) ==
    ParsePragmaExpr(PragmaExpr({"pragma"}, TRUE,
                               <<PragmaOption("returns-whitelist", value)>>))

(***************************************************************************)
(* Names.  c_name() is the mangling of scripts/qapi/common.py: every       *)
(* character that is no letter, digit or underscore becomes '_'.           *)
(***************************************************************************)
c_name(name) ==
    [i \in 1..Len(name) |-> IF name[i] \in {"-", "."} THEN "_" ELSE name[i]]

startswith(s, pre) == Len(s) >= Len(pre) /\ SubSeq(s, 1, Len(pre)) = pre
endswith(s, suf) ==
    Len(s) >= Len(suf) /\ SubSeq(s, Len(s) - Len(suf) + 1, Len(s)) = suf

(***************************************************************************)
(* Conditions.  An entity's _ifcond is a list of strings or, for a simple  *)
(* union's wrapper type, the wrapped type itself.                          *)
(***************************************************************************)
IfList(l) == [isType |-> FALSE, list |-> l, type |-> NoName]
IfType(name) == [isType |-> TRUE, list |-> <<>>, type |-> name]

(***************************************************************************)
(* Members (QAPISchemaMember and its subclasses).                          *)
(***************************************************************************)
\* QAPISchemaMember.__init__ (enum members and features)
Member(role, name, info, ifcond) ==
    [role |-> role, name |-> name, info |-> info, ifcond |-> ifcond,
     defined_in |-> NoName, type_name |-> NoName, type |-> NoName,
     optional |-> FALSE, features |-> <<>>]

\* QAPISchemaObjectTypeMember.__init__
ObjectTypeMember(name, info, typ, optional, ifcond, features) ==
    [Member("member", name, info, ifcond) EXCEPT
        !.type_name = typ, !.optional = optional,
        !.features = [i \in 1..Len(features) |->
                        [features[i] EXCEPT !.defined_in = name]]]

\* QAPISchemaVariant.__init__
Variant(name, info, typ, ifcond) ==
    [ObjectTypeMember(name, info, typ, FALSE, ifcond, <<>>) EXCEPT
        !.role = "branch"]

\* QAPISchemaMember.set_defined_in, over a list of members
set_defined_in(members, name) ==
    [i \in 1..Len(members) |-> [members[i] EXCEPT !.defined_in = name]]

\* QAPISchemaVariants.__init__
Variants(tag_name, info, tag_member, variants) ==
    [tag_name |-> tag_name, info |-> info, tag_member |-> tag_member,
     variants |-> variants]

(***************************************************************************)
(* Entities (QAPISchemaEntity and its subclasses), one record shape for    *)
(* all classes; a field a class does not have keeps its initial value.     *)
(***************************************************************************)
TypeClasses == {"builtin", "enum", "array", "object", "alternate"}

\* QAPISchemaEntity.__init__
Entity(cls, meta, name, info, doc, ifcond, features) ==
    [cls |-> cls, meta |-> meta, name |-> name, info |-> info, doc |-> doc,
     ifcond |-> ifcond,
     features |-> set_defined_in(features, name),
     checked |-> FALSE, module |-> <<>>,
     json_type |-> "", enum_members |-> <<>>,
     element_type_name |-> NoName, element_type |-> NoName,
     base_name |-> NoName, base |-> NoName, local_members |-> <<>>,
     variants |-> <<>>, members |-> <<>>,
     arg_type_name |-> NoName, arg_type |-> NoName,
     ret_type_name |-> NoName, ret_type |-> NoName, boxed |-> FALSE,
     sub_module |-> <<>>]

\* QAPISchemaInclude.__init__
Include(sub_module, info) ==
    [Entity("include", "", NoName, info, <<>>, IfList(<<>>), <<>>) EXCEPT
        !.sub_module = sub_module]

\* QAPISchemaBuiltinType.__init__
BuiltinType(name, json_type) ==
    [Entity("builtin", "built-in", name, NoInfo, <<>>, IfList(<<>>), <<>>)
        EXCEPT !.json_type = json_type]

\* QAPISchemaEnumType.__init__
EnumType(name, info, doc, ifcond, features, members) ==
    [Entity("enum", "enum", name, info, doc, ifcond, features) EXCEPT
        !.enum_members = set_defined_in(members, name)]

\* QAPISchemaArrayType.__init__
ArrayType(name, info, element_type) ==
    [Entity("array", "array", name, info, <<>>, IfList(<<>>), <<>>) EXCEPT
        !.element_type_name = element_type]

\* QAPISchemaObjectType.__init__
ObjectType(name, info, doc, ifcond, features, base, local_members, variants) ==
    [Entity("object", IF variants # <<>> THEN "union" ELSE "struct",
            name, info, doc, ifcond, features) EXCEPT
        !.base_name = base,
        !.local_members = set_defined_in(local_members, name),
        !.variants =
            IF variants = <<>> THEN <<>>
            ELSE <<[variants[1] EXCEPT
                      !.variants = set_defined_in(@, name)]>>]

\* QAPISchemaAlternateType.__init__
AlternateType(name, info, doc, ifcond, features, variants) ==
    [Entity("alternate", "alternate", name, info, doc, ifcond, features)
        EXCEPT
        !.variants =
            <<[variants EXCEPT
                 !.variants = set_defined_in(@, name),
                 !.tag_member = set_defined_in(@, name)]>>]

\* QAPISchemaCommand.__init__
Command(name, info, doc, ifcond, features, arg_type, ret_type, boxed) ==
    [Entity("command", "command", name, info, doc, ifcond, features) EXCEPT
        !.arg_type_name = arg_type, !.ret_type_name = ret_type,
        !.boxed = boxed]

\* QAPISchemaEvent.__init__
Event(name, info, doc, ifcond, features, arg_type, boxed) ==
    [Entity("event", "event", name, info, doc, ifcond, features) EXCEPT
        !.arg_type_name = arg_type, !.boxed = boxed]

\* QAPISchemaEnumType.is_implicit, QAPISchemaObjectType.is_implicit, ...
is_implicit(ent) ==
    CASE ent.cls = "enum" ->
             endswith(ent.name, <<"Kind">>) \/ ent.name = <<"QType">>
      [] ent.cls = "array" -> TRUE
      [] ent.cls = "object" -> startswith(ent.name, <<"q_">>)
      [] OTHER -> ent.info = NoInfo

\* QAPISchemaEnumType.member_names
member_names(ent) ==
    [i \in 1..Len(ent.enum_members) |-> ent.enum_members[i].name]

(***************************************************************************)
(* The expressions the model builder reads (after the expression checker   *)
(* has normalised them): Item is one entry of a 'data' object or list,     *)
(* Ref is a 'base' or a command's 'data' (absent, a type name, or an       *)
(* inline object).                                                         *)
(***************************************************************************)
Item(key, typ, list, ifcond) ==
    [key |-> key, type |-> typ, list |-> list, ifcond |-> ifcond,
     features |-> <<>>]
NoRef == [kind |-> "none", name |-> NoName, data |-> <<>>]
NameRef(name) == [kind |-> "name", name |-> name, data |-> <<>>]
DictRef(data) == [kind |-> "dict", name |-> NoName, data |-> data]

Defn(meta, name, data) ==
    [meta |-> meta, name |-> name, data |-> data, base |-> NoRef,
     discriminator |-> NoName, ifcond |-> <<>>, features |-> <<>>,
     arg |-> NoRef, returns |-> Item(NoName, NoName, FALSE, <<>>),
     boxed |-> FALSE, doc |-> <<>>]

\* QAPIDoc, as the parser leaves it: the symbol and the sections by name
ArgSection(name) == [name |-> name, member |-> FALSE]
Doc(symbol, args, features) ==
    [symbol |-> symbol,
     args |-> [i \in 1..Len(args) |-> ArgSection(args[i])],
     features |-> [i \in 1..Len(features) |-> ArgSection(features[i])]]

(***************************************************************************)
(* The lexer's place in the current line.  The parser's src field is       *)
(* self.src[self.line_pos:self.pos], the characters of the current line    *)
(* before the cursor, and col the column of the QAPIParseError it raised.  *)
(***************************************************************************)
Tab == "\t"

\* QAPIParseError.make: the column of the character after src
RECURSIVE make_from(_, _)
make_from(col, src) ==
    IF src = <<>> THEN col
    ELSE make_from(IF Head(src) = Tab THEN ((col + 7) % 8) + 1 ELSE col + 1,
                   Tail(src))
make(src) == make_from(1, src)

\* accept: the cursor moves over the character ch of the current line
Accept(ch) ==
    /\ phase = "parse"
    /\ pstack' = [pstack EXCEPT ![Len(pstack)] =
                     [@ EXCEPT !.src = Append(@, ch)]]
    /\ UNCHANGED <<vis, phase, err, pragma, included, opened, exprs, entity_list,
                   entity_dict, module_dict, ci, cstack, visitlog>>

\* accept on a newline: self.line_pos = self.cursor
AcceptNewline ==
    /\ phase = "parse"
    /\ TopParser.src # <<>>
    /\ pstack' = [pstack EXCEPT ![Len(pstack)] = [@ EXCEPT !.src = <<>>]]
    /\ UNCHANGED <<vis, phase, err, pragma, included, opened, exprs, entity_list,
                   entity_dict, module_dict, ci, cstack, visitlog>>

\* accept on a character that starts no token: raise self._parse_error
ParseError ==
    /\ phase = "parse"
    /\ Raise(SemError("stray character", NoName, NoName))
    /\ pstack' = [pstack EXCEPT ![Len(pstack)] =
                     [@ EXCEPT !.col = make(TopParser.src)]]
    /\ UNCHANGED <<vis, pragma, included, opened, exprs, entity_list,
                   entity_dict, module_dict, ci, cstack, visitlog>>

(***************************************************************************)
(* _get_doc, line by line.  The parser's doc field is the QAPIDoc under    *)
(* construction (none between blocks) and lines the comment lines it has   *)
(* consumed.  A QAPIDocError becomes the parse error of get_doc.           *)
(***************************************************************************)
\* _parse on '#': reject_expr_doc(cur_doc), then _get_doc up to its loop
DocStart ==
    /\ phase = "parse"
    /\ TopParser.doc = <<>>
    /\ IF reject_expr_doc(TopParser.cur_doc) THEN
           /\ Raise(NotFollowed(TopParser.cur_doc))
           /\ UNCHANGED pstack
       ELSE
           /\ pstack' = [pstack EXCEPT ![Len(pstack)] =
                            [@ EXCEPT !.doc = <<QAPIDoc>>, !.lines = <<>>]]
           /\ UNCHANGED <<vis, phase, err>>
    /\ UNCHANGED <<vis, pragma, included, opened, exprs, entity_list, entity_dict,
                   module_dict, ci, cstack, visitlog>>

\* _get_doc, one iteration of the loop: cur_doc.append(self.val)
DocAppend(line) ==
    /\ phase = "parse"
    /\ TopParser.doc # <<>>
    /\ \E r \in {QAPIDoc_append(TopParser.doc[1], line)} :
           IF r.err # NoErr THEN
               /\ Raise(r.err)
               /\ UNCHANGED pstack
           ELSE
               /\ pstack' = [pstack EXCEPT ![Len(pstack)] =
                                [@ EXCEPT !.doc = <<r.doc>>,
                                          !.lines = Append(@, line)]]
               /\ UNCHANGED <<vis, phase, err>>
    /\ UNCHANGED <<vis, pragma, included, opened, exprs, entity_list, entity_dict,
                   module_dict, ci, cstack, visitlog>>

\* _get_doc on the closing '##': cur_doc.end_comment(); the block becomes
\* _parse's cur_doc
DocEnd ==
    /\ phase = "parse"
    /\ TopParser.doc # <<>>
    /\ \E r \in {_end_section(TopParser.doc[1])} :
           IF r.err # NoErr THEN
               /\ Raise(r.err)
               /\ UNCHANGED pstack
           ELSE
               /\ pstack' = [pstack EXCEPT ![Len(pstack)] =
                                [@ EXCEPT !.n = @ + 1,
                                          !.cur_doc = <<Doc(r.doc.symbol,
                                                            r.doc.args,
                                                            r.doc.features)>>,
                                          !.doc = <<>>, !.lines = <<>>]]
               /\ UNCHANGED <<vis, phase, err>>
    /\ UNCHANGED <<vis, pragma, included, opened, exprs, entity_list, entity_dict,
                   module_dict, ci, cstack, visitlog>>

(***************************************************************************)
(* The model builder.  A schema under construction is the record           *)
(*   [el: _entity_list, ed: _entity_dict, md: _module_dict, err]           *)
(* and every builder function maps a schema to a schema; once err is set   *)
(* (an exception is propagating) the rest of the work is skipped.          *)
(* A function that also returns a value returns [m, r].                    *)
(***************************************************************************)
Ret(m, r) == [m |-> m, r |-> r]

\* QAPISchema.lookup_entity: the index of the entity, as an optional value
lookup_entity(el, ed, name, classes) ==
    IF name \in DOMAIN ed /\ el[ed[name]].cls \in classes
    THEN <<ed[name]>> ELSE <<>>

AllClasses == TypeClasses \cup {"command", "event", "include"}

\* QAPISchema.lookup_type
lookup_type(el, ed, name) == lookup_entity(el, ed, name, TypeClasses)

\* QAPISchema._def_entity
_def_entity(m, ent) ==
    IF m.err # NoErr THEN m
    ELSE IF ent.name = NoName THEN [m EXCEPT !.el = Append(m.el, ent)]
    ELSE IF ent.name \in DOMAIN m.ed THEN
        [m EXCEPT !.el = Append(m.el, ent),
                  !.err = SemError("is already defined", ent.name, NoName)]
    ELSE [m EXCEPT !.el = Append(m.el, ent),
                   !.ed = [n \in DOMAIN m.ed \cup {ent.name} |->
                             IF n = ent.name THEN Len(m.el) + 1 ELSE m.ed[n]]]

\* QAPISchema._module_name
_module_name(fname) ==
    IF fname = <<>> THEN <<>> ELSE relpath(fname, dirname(RootFname))

ModuleNames(md) == {md[i].name : i \in 1..Len(md)}

\* QAPISchema._make_module
_make_module(m, fname) ==
    Bind(_module_name(fname),
         LAMBDA name :
        IF m.err # NoErr \/ name \in ModuleNames(m.md) THEN m
        ELSE [m EXCEPT !.md = Append(m.md, [name |-> name,
                                            entity_list |-> <<>>])])

\* QAPISchema._def_include
_def_include(m, expr) ==
    Bind(_make_module(m, expr.include),
         LAMBDA m2 :
        _def_entity(m2, Include(_module_name(expr.include), expr.info)))

_make_array_type_nomemo(m, element_type, info) ==
    LET name == element_type \o <<"List">>
    IN  IF m.err = NoErr
        THEN Ret(_def_entity(m, ArrayType(name, info, element_type)), name)
        ELSE Ret(m, name)
\* QAPISchema._make_array_type
_make_array_type(m, element_type, info) ==
    LET name == element_type \o <<"List">>
    IN  IF m.err = NoErr /\ lookup_type(m.el, m.ed, name) = <<>>
        THEN Ret(_def_entity(m, ArrayType(name, info, element_type)), name)
        ELSE Ret(m, name)

\* QAPISchema._make_features
_make_features(features, info) ==
    [i \in 1..Len(features) |->
        Member("feature", features[i].key, info, features[i].ifcond)]

\* QAPISchema._make_enum_members
_make_enum_members(values, info) ==
    [i \in 1..Len(values) |->
        Member("value", values[i].key, info, values[i].ifcond)]

\* QAPISchema._make_member
_make_member(m, name, typ, list, ifcond, features, info) ==
    LET optional == startswith(name, <<"*">>)
        name2 == IF optional THEN Tail(name) ELSE name
    IN
    Bind(IF list THEN _make_array_type(m, typ, info) ELSE Ret(m, typ),
         LAMBDA a :
        Ret(a.m, ObjectTypeMember(name2, info, a.r, optional, ifcond,
                                  _make_features(features, info))))

\* QAPISchema._make_members: the members of 'data', in order
RECURSIVE _make_members(_, _, _)
_make_members(m, data, info) ==
    IF data = <<>> THEN Ret(m, <<>>)
    ELSE Bind(_make_member(m, Head(data).key, Head(data).type,
                               Head(data).list, Head(data).ifcond,
                               Head(data).features, info),
              LAMBDA h :
         Bind(_make_members(h.m, Tail(data), info),
              LAMBDA t :
             Ret(t.m, <<h.r>> \o t.r)))

\* QAPISchema._make_implicit_enum_type
_make_implicit_enum_type(m, name, info, ifcond, values) ==
    LET name2 == name \o <<"Kind">>
    IN  Ret(_def_entity(m, EnumType(name2, info, <<>>, IfList(ifcond), <<>>,
                                    _make_enum_members(values, info))),
            name2)

\* QAPISchema._make_implicit_object_type; ifcond is an _ifcond value
_make_implicit_object_type(m, name, info, ifcond, role, members) ==
    IF members = <<>> THEN Ret(m, NoName)
    ELSE LET name2 == <<"q_", "obj_">> \o name \o <<"-", role>>
             typ == lookup_entity(m.el, m.ed, name2, {"object"})
         IN  IF m.err # NoErr THEN Ret(m, name2)
             ELSE IF typ # <<>> THEN
                 IF ifcond = m.el[typ[1]].ifcond THEN Ret(m, name2)
                 ELSE Ret([m EXCEPT !.err =
                              SemError("AssertionError", name2, NoName)],
                          name2)
             ELSE Ret(_def_entity(m, ObjectType(name2, info, <<>>, ifcond,
                                                <<>>, NoName, members, <<>>)),
                      name2)

\* QAPISchema._def_builtin_type
_def_builtin_type(m, name, json_type) ==
    _make_array_type(_def_entity(m, BuiltinType(name, json_type)),
                     name, NoInfo).m

\* The table of _def_predefineds: name and JSON type
BuiltinTable ==
    << <<"str", "string">>, <<"number", "number">>, <<"int", "int">>,
       <<"int8", "int">>, <<"int16", "int">>, <<"int32", "int">>,
       <<"int64", "int">>, <<"uint8", "int">>, <<"uint16", "int">>,
       <<"uint32", "int">>, <<"uint64", "int">>, <<"size", "int">>,
       <<"bool", "boolean">>, <<"any", "value">>, <<"null", "null">> >>

RECURSIVE def_builtins(_, _)
def_builtins(m, table) ==
    IF table = <<>> THEN m
    ELSE def_builtins(_def_builtin_type(m, <<Head(table)[1]>>,
                                        Head(table)[2]),
                      Tail(table))

QTypeValues ==
    [i \in 1..7 |->
        Item(<< <<"none", "qnull", "qnum", "qstring", "qdict", "qlist",
                  "qbool">>[i] >>, NoName, FALSE, <<>>)]

\* QAPISchema._def_predefineds
_def_predefineds(m) ==
    Bind(def_builtins(m, BuiltinTable),
         LAMBDA m1 :
    Bind(_def_entity(m1, ObjectType(<<"q_", "empty">>, NoInfo, <<>>,
                                         IfList(<<>>), <<>>, NoName, <<>>,
                                         <<>>)),
         LAMBDA m2 :
        _def_entity(m2, EnumType(<<"QType">>, NoInfo, <<>>, IfList(<<>>),
                                 <<>>,
                                 _make_enum_members(QTypeValues, NoInfo)))))

\* QAPISchema._def_enum_type
_def_enum_type(m, expr, info, doc) ==
    _def_entity(m, EnumType(expr.name, info, doc, IfList(expr.ifcond),
                            _make_features(expr.features, info),
                            _make_enum_members(expr.data, info)))

\* QAPISchema._def_struct_type
_def_struct_type(m, expr, info, doc) ==
    Bind(_make_members(m, expr.data, info),
         LAMBDA ms :
        _def_entity(ms.m, ObjectType(expr.name, info, doc,
                                     IfList(expr.ifcond),
                                     _make_features(expr.features, info),
                                     expr.base.name, ms.r, <<>>)))

\* QAPISchema._make_variant
_make_variant(case, typ, ifcond, info) == Variant(case, info, typ, ifcond)

\* QAPISchema._make_simple_variant
_make_simple_variant_bare(m, case, typ, list, ifcond, info) ==
    Bind(IF list THEN _make_array_type(m, typ, info) ELSE Ret(m, typ),
         LAMBDA a :
        Ret(a.m, Variant(case, info, a.r, ifcond)))
_make_simple_variant(m, case, typ, list, ifcond, info) ==
    Bind(IF list THEN _make_array_type(m, typ, info) ELSE Ret(m, typ),
         LAMBDA a :
    Bind(lookup_type(a.m.el, a.m.ed, a.r),
         LAMBDA wrapped :
    Bind(_make_member(a.m, <<"data">>, a.r, FALSE, <<>>, <<>>, info),
         LAMBDA mm :
    Bind(_make_implicit_object_type(
                 mm.m, a.r, info,
                 IF wrapped = <<>> THEN IfList(<<>>) ELSE IfType(a.r),
                 "wrapper", <<mm.r>>),
         LAMBDA w :
        Ret(w.m, Variant(case, info, w.r, ifcond))))))

RECURSIVE make_simple_variants(_, _, _)
make_simple_variants(m, data, info) ==
    IF data = <<>> THEN Ret(m, <<>>)
    ELSE Bind(_make_simple_variant(m, Head(data).key, Head(data).type,
                                       Head(data).list, Head(data).ifcond,
                                       info),
              LAMBDA h :
         Bind(make_simple_variants(h.m, Tail(data), info),
              LAMBDA t :
             Ret(t.m, <<h.r>> \o t.r)))

\* QAPISchema._def_union_type
_def_union_type(m, expr, info, doc) ==
    LET name == expr.name
        data == expr.data
        features == _make_features(expr.features, info)
        tag_name == expr.discriminator
    IN
    Bind(IF expr.base.kind = "dict"
              THEN _make_members(m, expr.base.data, info) ELSE Ret(m, <<>>),
         LAMBDA bm :
    Bind(IF expr.base.kind = "dict"
             THEN _make_implicit_object_type(bm.m, name, info,
                                             IfList(expr.ifcond), "base",
                                             bm.r)
             ELSE Ret(m, expr.base.name),
         LAMBDA b :
        IF tag_name # NoName THEN
            _def_entity(b.m,
                ObjectType(name, info, doc, IfList(expr.ifcond), features,
                           b.r, <<>>,
                           <<Variants(tag_name, info, <<>>,
                               [i \in 1..Len(data) |->
                                   _make_variant(data[i].key, data[i].type,
                                                 data[i].ifcond, info)])>>))
        ELSE
            Bind(make_simple_variants(b.m, data, info),
                 LAMBDA vs :
            Bind([i \in 1..Len(vs.r) |->
                            Item(vs.r[i].name, NoName, FALSE,
                                 vs.r[i].ifcond)],
                 LAMBDA enum :
            Bind(_make_implicit_enum_type(vs.m, name, info,
                                                expr.ifcond, enum),
                 LAMBDA typ :
            Bind(ObjectTypeMember(<<"type">>, info, typ.r,
                                               FALSE, <<>>, <<>>),
                 LAMBDA tag_member :
                _def_entity(typ.m,
                    ObjectType(name, info, doc, IfList(expr.ifcond),
                               features, b.r, <<tag_member>>,
                               <<Variants(NoName, info, <<tag_member>>,
                                          vs.r)>>))))))))

\* QAPISchema._def_alternate_type
_def_alternate_type(m, expr, info, doc) ==
    Bind(ObjectTypeMember(<<"type">>, info, <<"QType">>, FALSE,
                                       <<>>, <<>>),
         LAMBDA tag_member :
        _def_entity(m,
            AlternateType(expr.name, info, doc, IfList(expr.ifcond),
                          _make_features(expr.features, info),
                          Variants(NoName, info, <<tag_member>>,
                              [i \in 1..Len(expr.data) |->
                                  _make_variant(expr.data[i].key,
                                                expr.data[i].type,
                                                expr.data[i].ifcond,
                                                info)]))))

\* the 'data' of a command or an event: a type name, or an inline object
def_arg_type(m, expr, info) ==
    IF expr.arg.kind = "dict" THEN
        Bind(_make_members(m, expr.arg.data, info),
             LAMBDA ms :
            _make_implicit_object_type(ms.m, expr.name, info,
                                       IfList(expr.ifcond), "arg", ms.r))
    ELSE Ret(m, expr.arg.name)

\* QAPISchema._def_command
_def_command(m, expr, info, doc) ==
    Bind(def_arg_type(m, expr, info),
         LAMBDA data :
    Bind(IF expr.returns.list
                THEN _make_array_type(data.m, expr.returns.type, info)
                ELSE Ret(data.m, expr.returns.type),
         LAMBDA rets :
        _def_entity(rets.m,
            Command(expr.name, info, doc, IfList(expr.ifcond),
                    _make_features(expr.features, info), data.r, rets.r,
                    expr.boxed))))

\* QAPISchema._def_event
_def_event(m, expr, info, doc) ==
    Bind(def_arg_type(m, expr, info),
         LAMBDA data :
        _def_entity(data.m,
            Event(expr.name, info, doc, IfList(expr.ifcond),
                  _make_features(expr.features, info), data.r, expr.boxed)))

\* QAPISchema._def_exprs, the body of the loop for one expression
def_expr(m, expr_elem) ==
    IF expr_elem.kind = "include" THEN _def_include(m, expr_elem)
    ELSE LET expr == expr_elem.defn[1]
             info == expr_elem.info
             doc == expr.doc
         IN  CASE expr.meta = "enum" -> _def_enum_type(m, expr, info, doc)
               [] expr.meta = "struct" -> _def_struct_type(m, expr, info, doc)
               [] expr.meta = "union" -> _def_union_type(m, expr, info, doc)
               [] expr.meta = "alternate" ->
                      _def_alternate_type(m, expr, info, doc)
               [] expr.meta = "command" -> _def_command(m, expr, info, doc)
               [] expr.meta = "event" -> _def_event(m, expr, info, doc)

\* QAPISchema.__init__ up to _def_exprs: the two first modules and the
\* predefined entities
NewSchema ==
    _def_predefineds(
        _make_module(
            _make_module([el |-> <<>>, ed |-> <<>>, md |-> <<>>,
                          err |-> NoErr], <<>>),
            RootFname))

Schema == [el |-> entity_list, ed |-> entity_dict, md |-> module_dict,
           err |-> err]

(***************************************************************************)
(* The validator.  Functions that may raise return a record with an err    *)
(* field; the first error ends the function.                               *)
(***************************************************************************)
\* the 'seen' dictionaries: members in insertion order, keyed by c_name
seen_get(seen, cname) ==
    LET hits == {i \in 1..Len(seen) : c_name(seen[i].name) = cname}
    IN  IF hits = {} THEN <<>> ELSE <<seen[CHOOSE i \in hits : TRUE]>>

\* QAPISchemaMember.check_clash
check_clash_exact(member, seen) ==
    IF \E i \in 1..Len(seen) : seen[i].name = member.name
    THEN [seen |-> seen,
          err |-> SemError("collides with", member.name, member.name)]
    ELSE [seen |-> Append(seen, member), err |-> NoErr]
check_clash(member, seen) ==
    LET cname == c_name(member.name)
    IN
    Bind(seen_get(seen, cname),
         LAMBDA old :
        IF old # <<>>
        THEN [seen |-> seen,
              err |-> SemError("collides with", member.name, old[1].name)]
        ELSE [seen |-> Append(seen, member), err |-> NoErr])

\* member.check_clash for each member of a list, in order
RECURSIVE check_clash_all(_, _)
check_clash_all(members, seen) ==
    IF members = <<>> THEN [seen |-> seen, err |-> NoErr]
    ELSE Bind(check_clash(Head(members), seen),
              LAMBDA h :
             IF h.err # NoErr THEN h
             ELSE check_clash_all(Tail(members), h.seen))

resolve_type_anyentity(el, ed, name, what) ==
    IF lookup_entity(el, ed, name, AllClasses) = <<>>
    THEN [type |-> NoName, err |-> SemError("uses unknown type", what, name)]
    ELSE [type |-> name, err |-> NoErr]
\* QAPISchema.resolve_type: the name of the type, or an error
resolve_type(el, ed, name, what) ==
    IF lookup_type(el, ed, name) = <<>>
    THEN [type |-> NoName, err |-> SemError("uses unknown type", what, name)]
    ELSE [type |-> name, err |-> NoErr]

TypeOf(el, ed, name) == el[ed[name]]

\* QAPISchemaEntity.check
Entity_check(ent) ==
    IF ent.checked
    THEN [ent |-> ent,
          err |-> SemError("AssertionError: not self._checked", ent.name,
                           NoName)]
    ELSE Bind(check_clash_all(ent.features, <<>>),
              LAMBDA c :
             [ent |-> [ent EXCEPT !.checked = c.err = NoErr], err |-> c.err])

\* QAPISchemaType.check
Type_check(ent) ==
    Bind(Entity_check(ent),
         LAMBDA c :
        IF c.err = NoErr
           /\ \E i \in 1..Len(ent.features) :
                 ent.features[i].name = <<"deprecated">>
        THEN [c EXCEPT !.err = SemError(
                  "feature 'deprecated' is not supported for types",
                  ent.name, NoName)]
        ELSE c)

\* QAPISchemaEnumType.check
EnumType_check(ent) ==
    Bind(Type_check(ent),
         LAMBDA c :
        IF c.err # NoErr THEN c
        ELSE [c EXCEPT !.err = check_clash_all(ent.enum_members, <<>>).err])

\* QAPISchemaArrayType.check
ArrayType_check(el, ed, ent) ==
    Bind(Type_check(ent),
         LAMBDA c :
    Bind(resolve_type(el, ed, ent.element_type_name, ent.name),
         LAMBDA r :
        IF c.err # NoErr THEN c
        ELSE IF r.err # NoErr THEN [c EXCEPT !.err = r.err]
        ELSE IF TypeOf(el, ed, r.type).cls = "array"
        THEN [c EXCEPT !.err = SemError("AssertionError", ent.name, NoName)]
        ELSE [c EXCEPT !.ent.element_type = r.type]))

Member_check_by_value(el, ed, member) ==
    Bind(resolve_type(el, ed, member.type_name, member.name),
         LAMBDA r :
        IF member.defined_in = NoName
        THEN [member |-> member,
              err |-> SemError("AssertionError", member.name, NoName)]
        ELSE IF r.err # NoErr THEN [member |-> member, err |-> r.err]
        ELSE IF /\ TypeOf(el, ed, r.type).cls = "object"
                /\ TypeOf(el, ed, r.type).checked
                /\ TypeOf(el, ed, r.type).members = <<>>
        THEN [member |-> member,
              err |-> SemError("object contains itself", r.type, NoName)]
        ELSE [member |-> [member EXCEPT !.type = r.type],
              err |-> check_clash_all(member.features, <<>>).err])
\* QAPISchemaObjectTypeMember.check
Member_check(el, ed, member) ==
    Bind(resolve_type(el, ed, member.type_name, member.name),
         LAMBDA r :
        IF member.defined_in = NoName
        THEN [member |-> member,
              err |-> SemError("AssertionError", member.name, NoName)]
        ELSE IF r.err # NoErr THEN [member |-> member, err |-> r.err]
        ELSE [member |-> [member EXCEPT !.type = r.type],
              err |-> check_clash_all(member.features, <<>>).err])

arg_check_unboxed(el, ed, c) ==
    LET ent == c.ent
    IN
    Bind(resolve_type(el, ed, ent.arg_type_name, ent.name),
         LAMBDA r :
        IF c.err # NoErr \/ ent.arg_type_name = NoName THEN c
        ELSE IF r.err # NoErr THEN [c EXCEPT !.err = r.err]
        ELSE IF TypeOf(el, ed, r.type).cls # "object"
        THEN [c EXCEPT !.err = SemError("'data' cannot take", ent.name,
                                        r.type)]
        ELSE IF TypeOf(el, ed, r.type).variants # <<>> /\ FALSE
        THEN [c EXCEPT !.ent.arg_type = r.type,
                       !.err = SemError(
                           "'data' can take only with 'boxed': true",
                           ent.name, r.type)]
        ELSE [c EXCEPT !.ent.arg_type = r.type])
\* the argument type of a command or an event (their check, first half)
arg_check(el, ed, c) ==
    LET ent == c.ent
    IN
    Bind(resolve_type(el, ed, ent.arg_type_name, ent.name),
         LAMBDA r :
        IF c.err # NoErr \/ ent.arg_type_name = NoName THEN c
        ELSE IF r.err # NoErr THEN [c EXCEPT !.err = r.err]
        ELSE IF TypeOf(el, ed, r.type).cls # "object"
        THEN [c EXCEPT !.err = SemError("'data' cannot take", ent.name,
                                        r.type)]
        ELSE IF TypeOf(el, ed, r.type).variants # <<>> /\ ~ent.boxed
        THEN [c EXCEPT !.ent.arg_type = r.type,
                       !.err = SemError(
                           "'data' can take only with 'boxed': true",
                           ent.name, r.type)]
        ELSE [c EXCEPT !.ent.arg_type = r.type])

\* QAPISourceInfo.pragma: every info of a compilation refers to the one
\* QAPISchemaPragma, whatever the line it was made at
info_pragma(info) == pragma

\* self.info.pragma.returns_whitelist, as the set of its names
returns_whitelist(info) == Range(info_pragma(info).returns_whitelist)

Command_check_nowhitelist(el, ed, ent) ==
    Bind(arg_check(el, ed, Entity_check(ent)),
         LAMBDA c :
    Bind(resolve_type(el, ed, ent.ret_type_name, ent.name),
         LAMBDA r :
    Bind(IF TypeOf(el, ed, r.type).cls = "array"
               THEN TypeOf(el, ed, r.type).element_type ELSE r.type,
         LAMBDA typ :
        IF c.err # NoErr \/ ent.ret_type_name = NoName THEN c
        ELSE IF r.err # NoErr THEN [c EXCEPT !.err = r.err]
        ELSE IF (typ = NoName \/ TypeOf(el, ed, typ).cls # "object")
        THEN [c EXCEPT !.ent.ret_type = r.type,
                       !.err = IF typ = NoName
                               THEN SemError("AssertionError", ent.name,
                                             r.type)
                               ELSE SemError("'returns' cannot take",
                                             ent.name, r.type)]
        ELSE [c EXCEPT !.ent.ret_type = r.type])))
\* QAPISchemaCommand.check
Command_check(el, ed, ent) ==
    Bind(arg_check(el, ed, Entity_check(ent)),
         LAMBDA c :
    Bind(resolve_type(el, ed, ent.ret_type_name, ent.name),
         LAMBDA r :
    Bind(IF TypeOf(el, ed, r.type).cls = "array"
               THEN TypeOf(el, ed, r.type).element_type ELSE r.type,
         LAMBDA typ :
        IF c.err # NoErr \/ ent.ret_type_name = NoName THEN c
        ELSE IF r.err # NoErr THEN [c EXCEPT !.err = r.err]
        ELSE IF ent.name \notin returns_whitelist(ent.info)
                /\ (typ = NoName \/ TypeOf(el, ed, typ).cls # "object")
        THEN [c EXCEPT !.ent.ret_type = r.type,
                       !.err = IF typ = NoName
                               THEN SemError("AssertionError", ent.name,
                                             r.type)
                               ELSE SemError("'returns' cannot take",
                                             ent.name, r.type)]
        ELSE [c EXCEPT !.ent.ret_type = r.type])))

\* QAPISchemaEvent.check
Event_check(el, ed, ent) == arg_check(el, ed, Entity_check(ent))

\* QAPISchemaVariants.check, up to the loop over the branches: the
\* discriminator of a flat union is looked up in seen, and the branches
\* the union does not name are added
RECURSIVE fill_variants(_, _, _, _, _)
fill_variants(variants, cases, members, info, defined_in) ==
    IF members = <<>> THEN variants
    ELSE fill_variants(
             IF Head(members).name \in cases THEN variants
             ELSE Append(variants,
                         [Variant(Head(members).name, info,
                                  <<"q_", "empty">>, Head(members).ifcond)
                             EXCEPT !.defined_in = defined_in]),
             cases, Tail(members), info, defined_in)

fill_missing_none(variants, members, info, defined_in) == variants

\* "branches that are not explicitly covered get an empty type"
fill_missing(variants, members, info, defined_in) ==
    fill_variants(variants, {variants[i].name : i \in 1..Len(variants)},
                  members, info, defined_in)

Variants_check_tag_mangled(el, ed, vs, seen) ==
    IF vs.tag_member = <<>> THEN
        Bind(seen_get(seen, c_name(vs.tag_name)),
             LAMBDA tag_member :
            IF tag_member = <<>>
            THEN [vs |-> vs,
                  err |-> SemError("discriminator is not a member of 'base'",
                                   vs.tag_name, NoName)]
            ELSE LET tm == tag_member[1]
                     vs2 == [vs EXCEPT !.tag_member = tag_member]
                 IN  IF lookup_type(el, ed, tm.defined_in) = <<>>
                     THEN [vs |-> vs2,
                           err |-> SemError("AssertionError", vs.tag_name,
                                            NoName)]
                     ELSE IF TypeOf(el, ed, tm.type).cls # "enum"
                     THEN [vs |-> vs2,
                           err |-> SemError(
                               "discriminator member must be of enum type",
                               vs.tag_name, tm.defined_in)]
                     ELSE IF tm.optional
                     THEN [vs |-> vs2,
                           err |-> SemError(
                               "discriminator member must not be optional",
                               vs.tag_name, tm.defined_in)]
                     ELSE IF tm.ifcond # <<>>
                     THEN [vs |-> vs2,
                           err |-> SemError(
                               "discriminator member must not be conditional",
                               vs.tag_name, tm.defined_in)]
                     ELSE [vs |-> vs2, err |-> NoErr])
    ELSE LET tm == vs.tag_member[1]
         IN  IF tm.type = NoName
                \/ TypeOf(el, ed, tm.type).cls # "enum"
                \/ tm.optional \/ tm.ifcond # <<>>
             THEN [vs |-> vs,
                   err |-> SemError("AssertionError", tm.name, NoName)]
             ELSE [vs |-> vs, err |-> NoErr]

\* QAPISchemaVariants.check: the discriminator of a flat union, the tag
\* member of a simple union or an alternate
Variants_check_tag(el, ed, vs, seen) ==
    IF vs.tag_member = <<>> THEN
        Bind(seen_get(seen, c_name(vs.tag_name)),
             LAMBDA tag_member :
            IF tag_member = <<>> \/ vs.tag_name # tag_member[1].name
            THEN [vs |-> vs,
                  err |-> SemError("discriminator is not a member of 'base'",
                                   vs.tag_name, NoName)]
            ELSE LET tm == tag_member[1]
                     vs2 == [vs EXCEPT !.tag_member = tag_member]
                 IN  IF lookup_type(el, ed, tm.defined_in) = <<>>
                     THEN [vs |-> vs2,
                           err |-> SemError("AssertionError", vs.tag_name,
                                            NoName)]
                     ELSE IF TypeOf(el, ed, tm.type).cls # "enum"
                     THEN [vs |-> vs2,
                           err |-> SemError(
                               "discriminator member must be of enum type",
                               vs.tag_name, tm.defined_in)]
                     ELSE IF tm.optional
                     THEN [vs |-> vs2,
                           err |-> SemError(
                               "discriminator member must not be optional",
                               vs.tag_name, tm.defined_in)]
                     ELSE IF tm.ifcond # <<>>
                     THEN [vs |-> vs2,
                           err |-> SemError(
                               "discriminator member must not be conditional",
                               vs.tag_name, tm.defined_in)]
                     ELSE [vs |-> vs2, err |-> NoErr])
    ELSE LET tm == vs.tag_member[1]
         IN  IF tm.type = NoName
                \/ TypeOf(el, ed, tm.type).cls # "enum"
                \/ tm.optional \/ tm.ifcond # <<>>
             THEN [vs |-> vs,
                   err |-> SemError("AssertionError", tm.name, NoName)]
             ELSE [vs |-> vs, err |-> NoErr]

Variants_check_head(el, ed, vs, seen) ==
    Bind(Variants_check_tag(el, ed, vs, seen),
         LAMBDA t :
    Bind(t.vs.tag_member[1],
         LAMBDA tm :
    Bind(IF vs.tag_name # NoName
            THEN [t.vs EXCEPT !.variants =
                     fill_missing(@, TypeOf(el, ed, tm.type).enum_members,
                                  vs.info, tm.defined_in)]
            ELSE t.vs,
         LAMBDA filled :
        IF t.err # NoErr THEN t
        ELSE IF filled.variants = <<>>
        THEN [vs |-> filled,
              err |-> SemError("union has no branches", NoName, NoName)]
        ELSE [vs |-> filled, err |-> NoErr])))

Variants_check_branch_anyname(el, ed, vs, i, seen) ==
    Bind(Member_check(el, ed, vs.variants[i]),
         LAMBDA c :
    Bind(c.member,
         LAMBDA v :
    Bind([vs EXCEPT !.variants[i] = v],
         LAMBDA vs2 :
    LET tag_type == TypeOf(el, ed, vs.tag_member[1].type)
    IN
        IF c.err # NoErr THEN [vs |-> vs, err |-> c.err]
        ELSE IF seen = <<>> THEN [vs |-> vs2, err |-> NoErr]
        ELSE IF TypeOf(el, ed, v.type).cls # "object"
                \/ TypeOf(el, ed, v.type).variants # <<>>
        THEN [vs |-> vs2,
              err |-> SemError("branch cannot use", v.name, v.type)]
        ELSE [vs |-> vs2, err |-> NoErr])))

\* QAPISchemaVariants.check, the body of the loop for one branch up to the
\* call of variant.type.check()
Variants_check_branch(el, ed, vs, i, seen) ==
    Bind(Member_check(el, ed, vs.variants[i]),
         LAMBDA c :
    Bind(c.member,
         LAMBDA v :
    Bind([vs EXCEPT !.variants[i] = v],
         LAMBDA vs2 :
    LET tag_type == TypeOf(el, ed, vs.tag_member[1].type)
    IN
        IF c.err # NoErr THEN [vs |-> vs, err |-> c.err]
        ELSE IF seen = <<>> THEN [vs |-> vs2, err |-> NoErr]
        ELSE IF v.name \notin Range(member_names(tag_type))
        THEN [vs |-> vs2,
              err |-> SemError("branch is not a value of", v.name,
                               tag_type.name)]
        ELSE IF TypeOf(el, ed, v.type).cls # "object"
                \/ TypeOf(el, ed, v.type).variants # <<>>
        THEN [vs |-> vs2,
              err |-> SemError("branch cannot use", v.name, v.type)]
        ELSE [vs |-> vs2, err |-> NoErr])))

\* the loop of QAPISchemaVariants.check when seen is empty (an alternate):
\* no branch calls another type's check()
RECURSIVE Variants_check_loop(_, _, _, _)
Variants_check_loop(el, ed, vs, i) ==
    IF i > Len(vs.variants) THEN [vs |-> vs, err |-> NoErr]
    ELSE Bind(Variants_check_branch(el, ed, vs, i, <<>>),
              LAMBDA b :
             IF b.err # NoErr THEN b
             ELSE Variants_check_loop(el, ed, b.vs, i + 1))

\* QAPISchemaType.json_type of each class
json_type(ent) ==
    CASE ent.cls = "builtin" -> ent.json_type
      [] ent.cls = "enum" -> "string"
      [] ent.cls = "array" -> "array"
      [] ent.cls = "object" -> "object"
      [] ent.cls = "alternate" -> "value"

alternate_qtype_split(ent) ==
    CASE json_type(ent) = "null" -> "QTYPE_QNULL"
      [] json_type(ent) = "string" -> "QTYPE_QSTRING"
      [] json_type(ent) = "number" -> "QTYPE_QNUM"
      [] json_type(ent) = "int" -> "QTYPE_QINT"
      [] json_type(ent) = "boolean" -> "QTYPE_QBOOL"
      [] json_type(ent) = "object" -> "QTYPE_QDICT"
      [] OTHER -> ""
\* QAPISchemaType.alternate_qtype: "" stands for the KeyError
alternate_qtype(ent) ==
    CASE json_type(ent) = "null" -> "QTYPE_QNULL"
      [] json_type(ent) = "string" -> "QTYPE_QSTRING"
      [] json_type(ent) = "number" -> "QTYPE_QNUM"
      [] json_type(ent) = "int" -> "QTYPE_QNUM"
      [] json_type(ent) = "boolean" -> "QTYPE_QBOOL"
      [] json_type(ent) = "object" -> "QTYPE_QDICT"
      [] OTHER -> ""

Digits == {"0", "1", "2", "3", "4", "5", "6", "7", "8", "9"}

\* re.match(r'[-+0-9.]', name): the first character is one of these
starts_numeric(name) ==
    name # <<>> /\ name[1] \in {"-", "+", "."} \cup Digits

\* QAPISchemaAlternateType.check, "conflicting" of one branch
conflicting_plain(typ, qtype) == {qtype}
conflicting(typ, qtype) ==
    {qtype} \cup
    (IF qtype # "QTYPE_QSTRING" THEN {}
     ELSE IF typ.cls = "enum" THEN
         (IF \E i \in 1..Len(typ.enum_members) :
                 typ.enum_members[i].name \in {<<"o", "n">>, <<"o", "f", "f">>}
          THEN {"QTYPE_QBOOL"} ELSE {})
         \cup
         (IF \E i \in 1..Len(typ.enum_members) :
                 starts_numeric(typ.enum_members[i].name)
          THEN {"QTYPE_QNUM"} ELSE {})
     ELSE {"QTYPE_QNUM", "QTYPE_QBOOL"})

\* "types_seen[qtype] = variant.name" for every qtype of conflicting
claim_types_forget(types_seen, conf, name) == types_seen
claim_types(types_seen, conf, name) ==
    [q \in DOMAIN types_seen \cup conf |->
        IF q \in conf THEN name ELSE types_seen[q]]

\* QAPISchemaAlternateType.check, the loop over the branches.  types_seen
\* maps a qtype to the branch that claimed it.  The loop over the set
\* "conflicting" has no fixed order: when it raises, the branch the message
\* names is any of those in others.
RECURSIVE Alternate_check_loop(_, _, _, _, _, _)
Alternate_check_loop(el, ed, variants, i, seen, types_seen) ==
    IF i > Len(variants)
    THEN [err |-> NoErr, others |-> {}, types_seen |-> types_seen]
    ELSE LET variant == variants[i]
         IN
         Bind(check_clash(variant, seen),
              LAMBDA c :
         LET typ == TypeOf(el, ed, variant.type)
         IN
         Bind(alternate_qtype(typ),
              LAMBDA qtype :
         Bind(conflicting(typ, qtype),
              LAMBDA conf :
         Bind(conf \cap DOMAIN types_seen,
              LAMBDA taken :
             IF c.err # NoErr
             THEN [err |-> c.err, others |-> {}, types_seen |-> types_seen]
             ELSE IF qtype = ""
             THEN [err |-> SemError("branch cannot use", variant.name,
                                    variant.type),
                   others |-> {}, types_seen |-> types_seen]
             ELSE IF taken # {}
             THEN [err |-> SemError("can't be distinguished from",
                                    variant.name, NoName),
                   others |-> {types_seen[q] : q \in taken},
                   types_seen |-> types_seen]
             ELSE Alternate_check_loop(el, ed, variants, i + 1, c.seen,
                                       claim_types(types_seen, conf,
                                                   variant.name))))))

\* QAPISchemaAlternateType.check
AlternateType_check(el, ed, ent) ==
    Bind(Type_check(ent),
         LAMBDA c :
    LET vs == ent.variants[1]
    IN
    Bind(Member_check(el, ed, vs.tag_member[1]),
         LAMBDA t :
    Bind(Variants_check_head(el, ed, [vs EXCEPT !.tag_member = <<t.member>>],
                                 <<>>),
         LAMBDA h :
    Bind(Variants_check_loop(el, ed, h.vs, 1),
         LAMBDA l :
    Bind(Alternate_check_loop(el, ed, l.vs.variants, 1, <<>>, <<>>),
         LAMBDA a :
    Bind([ent |-> c.ent, err |-> NoErr, others |-> {}],
         LAMBDA none :
        IF c.err # NoErr THEN [none EXCEPT !.err = c.err]
        ELSE IF t.err # NoErr THEN [none EXCEPT !.err = t.err]
        ELSE IF h.err # NoErr
        THEN [none EXCEPT !.ent.variants = <<h.vs>>, !.err = h.err]
        ELSE IF l.err # NoErr
        THEN [none EXCEPT !.ent.variants = <<l.vs>>, !.err = l.err]
        ELSE [none EXCEPT !.ent.variants = <<l.vs>>, !.err = a.err,
                          !.others = a.others]))))))

(***************************************************************************)
(* Documentation: QAPIDoc.connect_member, connect_feature and check.       *)
(***************************************************************************)
section_index(sections, name) ==
    {i \in 1..Len(sections) : sections[i].name = name}

\* QAPIDoc.connect_member
connect_member(doc, member) ==
    LET args == IF section_index(doc.args, member.name) = {}
                THEN Append(doc.args, ArgSection(member.name))
                ELSE doc.args
    IN  [doc EXCEPT !.args =
            [i \in 1..Len(args) |->
                IF args[i].name = member.name
                THEN [args[i] EXCEPT !.member = TRUE] ELSE args[i]]]

connect_feature_lenient(doc, feature) == [doc |-> doc, err |-> NoErr]
\* QAPIDoc.connect_feature
connect_feature(doc, feature) ==
    IF section_index(doc.features, feature.name) = {}
    THEN [doc |-> doc,
          err |-> SemError("feature lacks documentation", feature.name,
                           NoName)]
    ELSE [doc |-> [doc EXCEPT !.features =
                      [i \in 1..Len(@) |->
                          IF @[i].name = feature.name
                          THEN [@[i] EXCEPT !.member = TRUE] ELSE @[i]]],
          err |-> NoErr]

RECURSIVE connect_features(_, _)
connect_features(doc, features) ==
    IF features = <<>> THEN [doc |-> doc, err |-> NoErr]
    ELSE Bind(connect_feature(doc, Head(features)),
              LAMBDA h :
             IF h.err # NoErr THEN h
             ELSE connect_features(h.doc, Tail(features)))

\* QAPISchemaObjectTypeMember.connect_doc for each member of a list
RECURSIVE connect_members(_, _)
connect_members(doc, members) ==
    IF members = <<>> THEN [doc |-> doc, err |-> NoErr]
    ELSE Bind(connect_features(connect_member(doc, Head(members)),
                                   Head(members).features),
              LAMBDA h :
             IF h.err # NoErr THEN h
             ELSE connect_members(h.doc, Tail(members)))

\* connect_doc of every class, on the documentation doc (not None)
RECURSIVE connect_doc(_, _, _, _)
connect_doc(el, ed, ent, doc) ==
    Bind(connect_features(doc, ent.features),
         LAMBDA f :
        IF f.err # NoErr THEN f
        ELSE CASE ent.cls = "enum" -> connect_members(f.doc, ent.enum_members)
               [] ent.cls = "object" ->
                      Bind(IF ent.base # NoName
                                  /\ is_implicit(TypeOf(el, ed, ent.base))
                               THEN connect_doc(el, ed,
                                                TypeOf(el, ed, ent.base),
                                                f.doc)
                               ELSE f,
                           LAMBDA b :
                          IF b.err # NoErr THEN b
                          ELSE connect_members(b.doc, ent.local_members))
               [] ent.cls = "alternate" ->
                      connect_members(f.doc, ent.variants[1].variants)
               [] ent.cls \in {"command", "event"} ->
                      IF ent.arg_type # NoName
                         /\ is_implicit(TypeOf(el, ed, ent.arg_type))
                      THEN connect_doc(el, ed, TypeOf(el, ed, ent.arg_type),
                                       f.doc)
                      ELSE f
               [] OTHER -> f)

\* QAPIDoc.check: the sections no member or feature was connected to
bogus(sections) ==
    {sections[i].name : i \in {j \in 1..Len(sections) : ~sections[j].member}}

Doc_check_skip(doc) == NoErr
Doc_check(doc) ==
    IF bogus(doc.args) # {}
    THEN SemError("documented member does not exist",
                  CHOOSE n \in bogus(doc.args) : TRUE, NoName)
    ELSE IF bogus(doc.features) # {}
    THEN SemError("documented member does not exist",
                  CHOOSE n \in bogus(doc.features) : TRUE, NoName)
    ELSE NoErr

connect_doc_only(el, ed, ent) ==
    IF ent.doc = <<>> THEN [ent |-> ent, err |-> NoErr]
    ELSE Bind(connect_doc(el, ed, ent, ent.doc[1]),
              LAMBDA c :
             IF c.err # NoErr THEN [ent |-> ent, err |-> c.err]
             ELSE [ent |-> [ent EXCEPT !.doc = <<c.doc>>], err |-> NoErr])
\* QAPISchema.check, the loop body after ent.check(): ent.connect_doc()
\* and ent.check_doc()
connect_and_check_doc(el, ed, ent) ==
    IF ent.doc = <<>> THEN [ent |-> ent, err |-> NoErr]
    ELSE Bind(connect_doc(el, ed, ent, ent.doc[1]),
              LAMBDA c :
             IF c.err # NoErr THEN [ent |-> ent, err |-> c.err]
             ELSE [ent |-> [ent EXCEPT !.doc = <<c.doc>>],
                   err |-> Doc_check(c.doc)])

(***************************************************************************)
(* QAPISchemaObjectType.check.  It calls the check() of other object       *)
(* types (the base, the branch types), so it runs on a stack of frames:    *)
(*   [ent: the type's index, pc, seen, vi: the branch being checked].      *)
(* A step runs the top frame up to its next call or its return:            *)
(*   pc "enter":   check() has just been called;                           *)
(*   pc "base":    self.base.check(schema) has returned;                   *)
(*   pc "variant": variant.type.check(schema) of branch vi has returned.   *)
(* A step yields [el, stack, err].                                         *)
(***************************************************************************)
Frame(i) == [ent |-> i, pc |-> "enter", seen |-> <<>>, vi |-> 0]

Step(el, stack, e) == [el |-> el, stack |-> stack, err |-> e]

\* check_clash of each local member after its check(), in order
RECURSIVE check_local_members(_, _, _, _)
check_local_members(el, ed, members, seen) ==
    IF members = <<>> THEN [members |-> <<>>, seen |-> seen, err |-> NoErr]
    ELSE Bind(Member_check(el, ed, Head(members)),
              LAMBDA c :
         Bind(check_clash(c.member, seen),
              LAMBDA k :
         Bind(check_local_members(el, ed, Tail(members), k.seen),
              LAMBDA t :
             IF c.err # NoErr
             THEN [members |-> members, seen |-> seen, err |-> c.err]
             ELSE IF k.err # NoErr
             THEN [members |-> members, seen |-> seen, err |-> k.err]
             ELSE [t EXCEPT !.members = <<c.member>> \o @])))

\* QAPISchemaObjectType.check_clash
ObjectType_check_clash(typ, seen) ==
    IF ~typ.checked \/ typ.variants # <<>> \/ typ.members = <<>>
    THEN [seen |-> seen,
          err |-> SemError("AssertionError", typ.name, NoName)]
    ELSE check_clash_all(typ.members[1], seen)

RECURSIVE Variants_check_clash_shared(_, _, _, _)
Variants_check_clash_shared(el, ed, variants, seen) ==
    IF variants = <<>> THEN NoErr
    ELSE Bind(ObjectType_check_clash(
                      TypeOf(el, ed, Head(variants).type), seen),
              LAMBDA c :
             IF c.err # NoErr THEN c.err
             ELSE Variants_check_clash_shared(el, ed, Tail(variants), c.seen))
\* QAPISchemaVariants.check_clash: every branch starts from a copy of seen
RECURSIVE Variants_check_clash(_, _, _, _)
Variants_check_clash(el, ed, variants, seen) ==
    IF variants = <<>> THEN NoErr
    ELSE Bind(ObjectType_check_clash(
                      TypeOf(el, ed, Head(variants).type), seen),
              LAMBDA c :
             IF c.err # NoErr THEN c.err
             ELSE Variants_check_clash(el, ed, Tail(variants), seen))

\* the end of check(): "self.members = members  # mark completed"
check_return(el, stack, members) ==
    Step([el EXCEPT ![Last(stack).ent].members = <<members>>],
         Front(stack), NoErr)

\* self.variants.check(schema, seen), the loop from branch i on, then
\* self.variants.check_clash(self.info, seen)
RECURSIVE check_variants(_, _, _, _)
check_variants(el, ed, stack, i) ==
    LET f == Last(stack)
        ent == el[f.ent]
        vs == ent.variants[1]
    IN  IF i > Len(vs.variants) THEN
            Bind(Variants_check_clash(el, ed, vs.variants, f.seen),
                 LAMBDA e :
                IF e # NoErr THEN Step(el, stack, e)
                ELSE check_return(el, stack, f.seen))
        ELSE
            Bind(Variants_check_branch(el, ed, vs, i, f.seen),
                 LAMBDA b :
            Bind([el EXCEPT ![f.ent].variants = <<b.vs>>],
                 LAMBDA el2 :
                IF b.err # NoErr THEN Step(el2, stack, b.err)
                ELSE IF f.seen = <<>>
                THEN check_variants(el2, ed, stack, i + 1)
                ELSE Step(el2,
                          Append([stack EXCEPT ![Len(stack)] =
                                     [f EXCEPT !.pc = "variant", !.vi = i]],
                                 Frame(ed[b.vs.variants[i].type])),
                          NoErr)))

\* check() from the loop over the local members on
check_locals(el, ed, stack) ==
    LET f == Last(stack)
        ent == el[f.ent]
    IN
    Bind(check_local_members(el, ed, ent.local_members, f.seen),
         LAMBDA l :
    Bind([ent EXCEPT !.local_members = l.members],
         LAMBDA ent2 :
    Bind([f EXCEPT !.seen = l.seen],
         LAMBDA f2 :
    Bind([stack EXCEPT ![Len(stack)] = f2],
         LAMBDA stack2 :
        IF l.err # NoErr THEN Step(el, stack, l.err)
        ELSE IF ent.variants = <<>>
        THEN check_return([el EXCEPT ![f.ent] = ent2], stack2, l.seen)
        ELSE
            \* a simple union's tag member is its first local member
            LET vs == IF ent.variants[1].tag_member # <<>>
                      THEN [ent.variants[1] EXCEPT
                               !.tag_member = <<l.members[1]>>]
                      ELSE ent.variants[1]
            IN
            Bind(Variants_check_head(el, ed, vs, l.seen),
                 LAMBDA h :
            Bind([el EXCEPT ![f.ent] =
                           [ent2 EXCEPT !.variants = <<h.vs>>]],
                 LAMBDA el2 :
                IF h.err # NoErr THEN Step(el2, stack2, h.err)
                ELSE check_variants(el2, ed, stack2, 1)))))))

\* check() at its start: the two guards, super().check(), and the base
check_enter_again(el, ed, stack) ==
    LET f == Last(stack)
        ent == el[f.ent]
    IN
    Bind(Type_check(ent),
         LAMBDA c :
    Bind([el EXCEPT ![f.ent] = c.ent],
         LAMBDA el2 :
    Bind(resolve_type(el, ed, ent.base_name, ent.name),
         LAMBDA r :
        IF ent.checked
        THEN Step(el, stack,
                  SemError("object contains itself", ent.name, NoName))
        ELSE IF c.err # NoErr THEN Step(el, stack, c.err)
        ELSE IF ent.base_name = NoName THEN check_locals(el2, ed, stack)
        ELSE IF r.err # NoErr THEN Step(el2, stack, r.err)
        ELSE IF TypeOf(el, ed, r.type).cls # "object"
                \/ TypeOf(el, ed, r.type).variants # <<>>
        THEN Step(el2, stack,
                  SemError("'base' requires a struct type", ent.name, r.type))
        ELSE Step([el2 EXCEPT ![f.ent].base = r.type],
                  Append([stack EXCEPT ![Len(stack)] =
                             [f EXCEPT !.pc = "base"]],
                         Frame(ed[r.type])),
                  NoErr))))

check_enter_noguard(el, ed, stack) ==
    LET f == Last(stack)
        ent == el[f.ent]
    IN
    Bind(Type_check(ent),
         LAMBDA c :
    Bind([el EXCEPT ![f.ent] = c.ent],
         LAMBDA el2 :
    Bind(resolve_type(el, ed, ent.base_name, ent.name),
         LAMBDA r :
        IF ent.members # <<>> THEN Step(el, Front(stack), NoErr)
        ELSE IF c.err # NoErr THEN Step(el, stack, c.err)
        ELSE IF ent.base_name = NoName THEN check_locals(el2, ed, stack)
        ELSE IF r.err # NoErr THEN Step(el2, stack, r.err)
        ELSE IF TypeOf(el, ed, r.type).cls # "object"
                \/ TypeOf(el, ed, r.type).variants # <<>>
        THEN Step(el2, stack,
                  SemError("'base' requires a struct type", ent.name, r.type))
        ELSE Step([el2 EXCEPT ![f.ent].base = r.type],
                  Append([stack EXCEPT ![Len(stack)] =
                             [f EXCEPT !.pc = "base"]],
                         Frame(ed[r.type])),
                  NoErr))))

check_enter(el, ed, stack) ==
    LET f == Last(stack)
        ent == el[f.ent]
    IN
    Bind(Type_check(ent),
         LAMBDA c :
    Bind([el EXCEPT ![f.ent] = c.ent],
         LAMBDA el2 :
    Bind(resolve_type(el, ed, ent.base_name, ent.name),
         LAMBDA r :
        IF ent.members # <<>> THEN Step(el, Front(stack), NoErr)
        ELSE IF ent.checked
        THEN Step(el, stack,
                  SemError("object contains itself", ent.name, NoName))
        ELSE IF c.err # NoErr THEN Step(el, stack, c.err)
        ELSE IF ent.base_name = NoName THEN check_locals(el2, ed, stack)
        ELSE IF r.err # NoErr THEN Step(el2, stack, r.err)
        ELSE IF TypeOf(el, ed, r.type).cls # "object"
                \/ TypeOf(el, ed, r.type).variants # <<>>
        THEN Step(el2, stack,
                  SemError("'base' requires a struct type", ent.name, r.type))
        ELSE Step([el2 EXCEPT ![f.ent].base = r.type],
                  Append([stack EXCEPT ![Len(stack)] =
                             [f EXCEPT !.pc = "base"]],
                         Frame(ed[r.type])),
                  NoErr))))

\* check() after self.base.check(schema): self.base.check_clash(...)
check_base(el, ed, stack) ==
    LET f == Last(stack)
        ent == el[f.ent]
    IN
    Bind(ObjectType_check_clash(TypeOf(el, ed, ent.base), f.seen),
         LAMBDA c :
        IF c.err # NoErr THEN Step(el, stack, c.err)
        ELSE check_locals(el, ed, [stack EXCEPT ![Len(stack)] =
                                      [f EXCEPT !.seen = c.seen]]))

\* one step of the top frame
ObjectType_check(el, ed, stack) ==
    CASE Last(stack).pc = "enter" -> check_enter(el, ed, stack)
      [] Last(stack).pc = "base" -> check_base(el, ed, stack)
      [] Last(stack).pc = "variant" ->
             check_variants(el, ed, stack, Last(stack).vi + 1)

(***************************************************************************)
(* QAPISchema.__init__ after the parser has returned.                      *)
(***************************************************************************)
\* _make_module (twice) and _def_predefineds
DefPredefineds ==
    /\ phase = "parsed"
    /\ \E m \in {NewSchema} :
           /\ entity_list' = m.el
           /\ entity_dict' = m.ed
           /\ module_dict' = m.md
    /\ phase' = "def"
    /\ ci' = 1
    /\ UNCHANGED <<vis, pragma, pstack, included, opened, exprs, err, cstack, visitlog>>

\* _def_exprs: one iteration of the loop; after the last one, check() starts
DefExprs ==
    /\ phase = "def"
    /\ \E m \in {IF ci <= Len(exprs) THEN def_expr(Schema, exprs[ci])
                 ELSE Schema} :
           /\ entity_list' = m.el
           /\ entity_dict' = m.ed
           /\ module_dict' = m.md
           /\ err' = m.err
           /\ phase' = IF m.err # NoErr THEN "error"
                       ELSE IF ci >= Len(exprs) THEN "check" ELSE "def"
           /\ ci' = IF m.err # NoErr THEN ci
                    ELSE IF ci >= Len(exprs) THEN 1 ELSE ci + 1
    /\ UNCHANGED <<vis, pragma, pstack, included, opened, exprs, cstack, visitlog>>

(***************************************************************************)
(* QAPISchema.check, the first loop.  CheckEntity calls ent.check() of     *)
(* the next entity; for an object type this starts a frame, which          *)
(* ObjectCheck runs.  When ent.check() has returned, the loop body goes    *)
(* on with ent.connect_doc() and ent.check_doc().                          *)
(***************************************************************************)
\* ent.check() of the classes that call no other entity's check()
simple_check(el, ed, ent) ==
    CASE ent.cls = "builtin" -> Type_check(ent)
      [] ent.cls = "enum" -> EnumType_check(ent)
      [] ent.cls = "array" -> ArrayType_check(el, ed, ent)
      [] ent.cls = "command" -> Command_check(el, ed, ent)
      [] ent.cls = "event" -> Event_check(el, ed, ent)
      [] ent.cls = "include" -> Entity_check(ent)

\* the rest of the loop body, and the step to the next entity
AfterCheck(el) ==
    \E d \in {connect_and_check_doc(el, entity_dict, el[ci])} :
        /\ entity_list' = [el EXCEPT ![ci] = d.ent]
        /\ err' = d.err
        /\ phase' = IF d.err # NoErr THEN "error"
                    ELSE IF ci = Len(el) THEN "setmod" ELSE "check"
        /\ ci' = IF d.err # NoErr \/ ci = Len(el) THEN ci ELSE ci + 1

CheckEntity ==
    /\ phase = "check"
    /\ cstack = <<>>
    /\ \E ent \in {entity_list[ci]} :
           IF ent.cls = "object" THEN
               /\ cstack' = <<Frame(ci)>>
               /\ UNCHANGED <<vis, entity_list, err, phase, ci>>
           ELSE IF ent.cls = "alternate" THEN
               \E c \in {AlternateType_check(entity_list, entity_dict, ent)} :
               \E el \in {[entity_list EXCEPT ![ci] = c.ent]} :
                   IF c.err = NoErr THEN AfterCheck(el) /\ UNCHANGED cstack
                   ELSE /\ \E o \in c.others \cup
                                    (IF c.others = {} THEN {NoName} ELSE {}) :
                               Raise([c.err EXCEPT !.other =
                                         IF c.others = {} THEN @ ELSE o])
                        /\ entity_list' = el
                        /\ UNCHANGED <<vis, ci, cstack>>
           ELSE
               \E c \in {simple_check(entity_list, entity_dict, ent)} :
               \E el \in {[entity_list EXCEPT ![ci] = c.ent]} :
                   IF c.err = NoErr THEN AfterCheck(el) /\ UNCHANGED cstack
                   ELSE /\ Raise(c.err)
                        /\ entity_list' = el
                        /\ UNCHANGED <<vis, ci, cstack>>
    /\ UNCHANGED <<vis, pragma, pstack, included, opened, exprs, entity_dict, module_dict,
                   visitlog>>

ObjectCheck ==
    /\ phase = "check"
    /\ cstack # <<>>
    /\ \E r \in {ObjectType_check(entity_list, entity_dict, cstack)} :
           /\ cstack' = r.stack
           /\ IF r.err # NoErr THEN
                  /\ Raise(r.err)
                  /\ entity_list' = r.el
                  /\ UNCHANGED ci
              ELSE IF r.stack = <<>> THEN AfterCheck(r.el)
              ELSE /\ entity_list' = r.el
                   /\ UNCHANGED <<vis, err, phase, ci>>
    /\ UNCHANGED <<vis, pragma, pstack, included, opened, exprs, entity_dict, module_dict,
                   visitlog>>

(***************************************************************************)
(* QAPISchema.check, the second loop: ent.set_module(self) of every        *)
(* entity, in the order of _entity_list.                                   *)
(***************************************************************************)
\* the info set_module passes to _set_module
module_info(el, ed, ent) ==
    IF ent.cls = "array" THEN TypeOf(el, ed, ent.element_type).info
    ELSE ent.info

\* QAPISchemaModule.add_entity
add_entity_front(md, name, i) ==
    [k \in 1..Len(md) |->
        IF md[k].name = name
        THEN [md[k] EXCEPT !.entity_list = <<i>> \o @] ELSE md[k]]
add_entity(md, name, i) ==
    [k \in 1..Len(md) |->
        IF md[k].name = name
        THEN [md[k] EXCEPT !.entity_list = Append(@, i)] ELSE md[k]]

RECURSIVE set_modules(_, _, _, _)
set_modules(el, ed, md, i) ==
    IF i > Len(el) THEN [el |-> el, md |-> md, err |-> NoErr]
    ELSE LET info == module_info(el, ed, el[i])
         IN
         Bind(_module_name(info.fname),
              LAMBDA name :
             IF ~el[i].checked
             THEN [el |-> el, md |-> md,
                   err |-> SemError("AssertionError", el[i].name, NoName)]
             ELSE IF name \notin ModuleNames(md)
             THEN [el |-> el, md |-> md,
                   err |-> SemError("KeyError", name, NoName)]
             ELSE set_modules([el EXCEPT ![i].module = <<name>>], ed,
                              add_entity(md, name, i), i + 1))

SetModule ==
    /\ phase = "setmod"
    /\ LET r == set_modules(entity_list, entity_dict, module_dict, 1)
       IN  /\ entity_list' = r.el
           /\ module_dict' = r.md
           /\ err' = r.err
           /\ phase' = IF r.err # NoErr THEN "error" ELSE "ready"
    /\ UNCHANGED <<vis, pragma, pstack, included, opened, exprs, entity_dict, ci, cstack,
                   visitlog>>

(***************************************************************************)
(* QAPISchema.visit with a visitor whose visit_needed is the default: the  *)
(* callbacks made, in order.                                               *)
(***************************************************************************)
\* QAPISchemaModule.visit
Module_visit(el, mod) ==
    <<[cb |-> "visit_module", module |-> mod.name, ent |-> 0]>> \o
    [k \in 1..Len(mod.entity_list) |->
        [cb |-> "visit_entity", module |-> mod.name,
         ent |-> mod.entity_list[k]]]

RECURSIVE modules_visit(_, _)
modules_visit(el, md) ==
    IF md = <<>> THEN <<>>
    ELSE Module_visit(el, Head(md)) \o modules_visit(el, Tail(md))

Visit ==
    /\ phase = "ready"
    /\ visitlog' = <<[cb |-> "visit_begin", module |-> <<>>, ent |-> 0]>>
                   \o modules_visit(entity_list, module_dict)
                   \o <<[cb |-> "visit_end", module |-> <<>>, ent |-> 0]>>
    /\ phase' = "visited"
    /\ UNCHANGED <<vis, pragma, pstack, included, opened, exprs, err, entity_list,
                   entity_dict, module_dict, ci, cstack>>

(***************************************************************************)
(* The introspection visitor (QAPISchemaGenIntrospectVisitor).  A tree is  *)
(* a record of the emitted name, the meta type, the comment that maps a    *)
(* masked name back to the type, and the references the description holds. *)
(***************************************************************************)
\* QAPISchemaGenIntrospectVisitor.__init__
IntrospectVisitor ==
    [stage |-> "new", unmask |-> FALSE, at |-> 0, pos |-> 0,
     trees |-> <<>>, used_types |-> <<>>, name_map |-> <<>>, out |-> <<>>]

\* QAPISchema.the_empty_object_type
the_empty_object_type == <<"q_", "empty">>

\* QAPISchemaGenIntrospectVisitor.visit_needed
visit_needed(ent) == ent.cls \notin TypeClasses

\* QAPISchemaGenIntrospectVisitor._name
_name(v, name) ==
    IF v.unmask THEN [v |-> v, s |-> name]
    ELSE IF \E i \in 1..Len(v.name_map) : v.name_map[i].key = name
    THEN [v |-> v,
          s |-> v.name_map[CHOOSE i \in 1..Len(v.name_map) :
                               v.name_map[i].key = name].value]
    ELSE [v |-> [v EXCEPT !.name_map =
                    Append(@, [key |-> name,
                               value |-> <<ToString(Len(@))>>])],
          s |-> <<ToString(Len(v.name_map))>>]

int_type_exact(el, ed, typ) == typ
\* QAPISchemaGenIntrospectVisitor._use_type, "Map the various integer types
\* to plain int"
int_type(el, ed, typ) ==
    IF json_type(TypeOf(el, ed, typ)) = "int" THEN <<"int">>
    ELSE IF /\ TypeOf(el, ed, typ).cls = "array"
            /\ json_type(TypeOf(el, ed,
                                TypeOf(el, ed, typ).element_type)) = "int"
    THEN <<"int", "List">>
    ELSE typ

\* QAPISchemaGenIntrospectVisitor._use_type, "Add type to work queue if new"
add_used(used_types, typ) ==
    IF typ \in Range(used_types) THEN used_types
    ELSE Append(used_types, typ)

\* QAPISchemaGenIntrospectVisitor._use_type
RECURSIVE _use_type(_, _, _, _)
_use_type(v, el, ed, typ) ==
    Bind(int_type(el, ed, typ),
         LAMBDA t :
    Bind([v EXCEPT !.used_types = add_used(@, t)],
         LAMBDA w :
        IF TypeOf(el, ed, t).cls = "builtin" THEN [v |-> w, s |-> t]
        ELSE IF TypeOf(el, ed, t).cls = "array"
        THEN Bind(_use_type(w, el, ed, TypeOf(el, ed, t).element_type),
                  LAMBDA r : [v |-> r.v, s |-> <<"[">> \o r.s \o <<"]">>])
        ELSE _name(w, t)))

\* QAPISchemaGenIntrospectVisitor._gen_tree
_gen_tree(v, name, mtype, obj) ==
    IF mtype \notin {"command", "event", "builtin", "array"}
    THEN Bind(_name(v, name),
              LAMBDA r :
             [r.v EXCEPT !.trees =
                 Append(@, [name |-> r.s, mtype |-> mtype, obj |-> obj,
                            comment |->
                                IF v.unmask THEN <<>>
                                ELSE <<[shown |-> r.s, of |-> name]>>])])
    ELSE [v EXCEPT !.trees =
             Append(@, [name |-> name, mtype |-> mtype, obj |-> obj,
                        comment |-> <<>>])]

\* QAPISchemaGenIntrospectVisitor._gen_member, _gen_variant and the
\* alternate's members, over a list: each names the type through _use_type
RECURSIVE _gen_members(_, _, _, _, _)
_gen_members(v, el, ed, members, key) ==
    IF members = <<>> THEN [v |-> v, obj |-> <<>>]
    ELSE Bind(_use_type(v, el, ed, Head(members).type),
              LAMBDA r :
         Bind(_gen_members(r.v, el, ed, Tail(members), key),
              LAMBDA rest :
             [v |-> rest.v,
              obj |-> <<[key |-> key, name |-> Head(members).name,
                         type |-> r.s]>> \o rest.obj]))

\* QAPISchemaGenIntrospectVisitor.visit_builtin_type
visit_builtin_type(v, ent) == _gen_tree(v, ent.name, "builtin", <<>>)

\* QAPISchemaGenIntrospectVisitor.visit_enum_type
visit_enum_type(v, ent) ==
    _gen_tree(v, ent.name, "enum",
              [i \in 1..Len(ent.enum_members) |->
                  [key |-> "value", name |-> ent.enum_members[i].name,
                   type |-> NoName]])

\* QAPISchemaGenIntrospectVisitor.visit_array_type
visit_array_type(v, el, ed, ent) ==
    Bind(_use_type(v, el, ed, ent.element_type),
         LAMBDA r :
        _gen_tree(r.v, <<"[">> \o r.s \o <<"]">>, "array",
                  <<[key |-> "element-type", name |-> NoName,
                     type |-> r.s]>>))

\* QAPISchemaGenIntrospectVisitor.visit_object_type_flat
visit_object_type_flat(v, el, ed, ent) ==
    Bind(_gen_members(v, el, ed, ent.members[1], "member"),
         LAMBDA m :
    Bind(IF ent.variants = <<>> THEN m
         ELSE _gen_members(m.v, el, ed, ent.variants[1].variants, "case"),
         LAMBDA c :
        _gen_tree(c.v, ent.name, "object",
                  IF ent.variants = <<>> THEN m.obj ELSE m.obj \o c.obj)))

\* QAPISchemaGenIntrospectVisitor.visit_alternate_type
visit_alternate_type(v, el, ed, ent) ==
    Bind(_gen_members(v, el, ed, ent.variants[1].variants, "member"),
         LAMBDA m : _gen_tree(m.v, ent.name, "alternate", m.obj))

\* QAPISchemaGenIntrospectVisitor.visit_command
visit_command(v, el, ed, ent) ==
    Bind(_use_type(v, el, ed, IF ent.arg_type # NoName THEN ent.arg_type
                              ELSE the_empty_object_type),
         LAMBDA a :
    Bind(_use_type(a.v, el, ed, IF ent.ret_type # NoName THEN ent.ret_type
                                ELSE the_empty_object_type),
         LAMBDA r :
        _gen_tree(r.v, ent.name, "command",
                  <<[key |-> "arg-type", name |-> NoName, type |-> a.s],
                    [key |-> "ret-type", name |-> NoName, type |-> r.s]>>)))

\* QAPISchemaGenIntrospectVisitor.visit_event
visit_event(v, el, ed, ent) ==
    Bind(_use_type(v, el, ed, IF ent.arg_type # NoName THEN ent.arg_type
                              ELSE the_empty_object_type),
         LAMBDA a :
        _gen_tree(a.v, ent.name, "event",
                  <<[key |-> "arg-type", name |-> NoName, type |-> a.s]>>))

\* QAPISchemaEntity.visit of each class, for the introspection visitor
Entity_visit(v, el, ed, ent) ==
    CASE ent.cls = "builtin" -> visit_builtin_type(v, ent)
      [] ent.cls = "enum" -> visit_enum_type(v, ent)
      [] ent.cls = "array" -> visit_array_type(v, el, ed, ent)
      [] ent.cls = "object" -> visit_object_type_flat(v, el, ed, ent)
      [] ent.cls = "alternate" -> visit_alternate_type(v, el, ed, ent)
      [] ent.cls = "command" -> visit_command(v, el, ed, ent)
      [] ent.cls = "event" -> visit_event(v, el, ed, ent)
      [] OTHER -> v

\* the calls QAPISchema.visit makes between visit_begin and visit_end
Traversal == modules_visit(entity_list, module_dict)

\* gen_introspect, on a schema the other generators have visited: the
\* visitor is created and QAPISchema.visit calls visit_begin
IntrospectBegin ==
    /\ phase = "visited"
    /\ vis.stage = "new"
    /\ \E unmask \in BOOLEAN :
          vis' = [IntrospectVisitor EXCEPT !.stage = "visit",
                                           !.unmask = unmask]
    /\ UNCHANGED <<pstack, included, opened, exprs, phase, err, entity_list,
                   entity_dict, module_dict, ci, cstack, visitlog, pragma>>

\* QAPISchemaModule.visit: one step of the traversal; an entity is visited
\* when visit_needed says so
IntrospectModule ==
    /\ vis.stage = "visit"
    /\ vis.at < Len(Traversal)
    /\ \E c \in {Traversal[vis.at + 1]} :
          vis' = [(IF c.cb = "visit_entity"
                      /\ visit_needed(entity_list[c.ent])
                   THEN Entity_visit(vis, entity_list, entity_dict,
                                     entity_list[c.ent])
                   ELSE vis) EXCEPT !.at = vis.at + 1]
    /\ UNCHANGED <<pstack, included, opened, exprs, phase, err, entity_list,
                   entity_dict, module_dict, ci, cstack, visitlog, pragma>>

\* QAPISchemaGenIntrospectVisitor.visit_end: one iteration of the loop over
\* _used_types, which the visited type may extend
VisitEndType ==
    /\ vis.stage = "visit"
    /\ vis.at = Len(Traversal)
    /\ vis.pos < Len(vis.used_types)
    /\ vis' = [Entity_visit(vis, entity_list, entity_dict,
                            TypeOf(entity_list, entity_dict,
                                   vis.used_types[vis.pos + 1]))
                  EXCEPT !.pos = vis.pos + 1]
    /\ UNCHANGED <<pstack, included, opened, exprs, phase, err, entity_list,
                   entity_dict, module_dict, ci, cstack, visitlog, pragma>>

\* QAPISchemaGenIntrospectVisitor.visit_end, after the loop: the trees are
\* emitted and the visitor's state is reset
VisitEndGen ==
    /\ vis.stage = "visit"
    /\ vis.at = Len(Traversal)
    /\ vis.pos = Len(vis.used_types)
    /\ vis' = [vis EXCEPT !.stage = "done", !.out = vis.trees,
                          !.trees = <<>>, !.used_types = <<>>,
                          !.name_map = <<>>]
    /\ UNCHANGED <<pstack, included, opened, exprs, phase, err, entity_list,
                   entity_dict, module_dict, ci, cstack, visitlog, pragma>>

\* gen_introspect
Introspect ==
    \/ IntrospectBegin
    \/ IntrospectModule
    \/ VisitEndType
    \/ VisitEndGen

(***************************************************************************)
(* The state after QAPISchema.__init__ has created the parser of the root  *)
(* schema file, which has opened the file and read nothing yet.            *)
(***************************************************************************)
Init ==
    /\ pstack = <<NewParser(RootFname)>>
    /\ included = {abspath(RootFname)}
    /\ opened = <<abspath(RootFname)>>
    /\ exprs = <<>>
    /\ phase = "parse"
    /\ err = NoErr
    /\ entity_list = <<>>
    /\ entity_dict = <<>>
    /\ module_dict = <<>>
    /\ ci = 0
    /\ cstack = <<>>
    /\ visitlog = <<>>
    /\ pragma = QAPISchemaPragma
    /\ vis = IntrospectVisitor

\* everything QAPISchema.__init__ and visit do once the parser has returned
Compile ==
    \/ DefPredefineds
    \/ DefExprs
    \/ CheckEntity
    \/ ObjectCheck
    \/ SetModule
    \/ Visit

(***************************************************************************)
(* Schemas spread over files.  What a file holds at a line is a            *)
(* definition whose name tells the file and the line (so a file read       *)
(* twice would define its names twice), or an include directive.           *)
(***************************************************************************)
LineTok(line) == <<"1", "2", "3", "4">>[line]
NameAt(letter, fname, line) == <<letter, Last(fname), LineTok(line)>>

FileDefs(fname, line) ==
    {Defn("enum", NameAt("E", fname, line),
          <<Item(<<"v">>, NoName, FALSE, <<>>)>>),
     Defn("struct", NameAt("S", fname, line),
          <<Item(<<"m">>, <<"str">>, TRUE, <<>>)>>),
     Defn("struct", NameAt("T", fname, line),
          <<Item(<<"m">>, NameAt("E", <<"c">>, 1), TRUE, <<>>)>>)}

NextInc ==
    \/ /\ phase = "parse" /\ TopParser.n < MaxItems
       /\ \E d \in FileDefs(TopParser.fname, TopParser.n + 1) : ParseDef(d)
    \/ /\ phase = "parse" /\ TopParser.n < MaxItems
       /\ \E i \in IncludeStrings : ParseInclude(i)
    \/ ParseEOF
    \/ Compile

SpecInc == Init /\ [][NextInc]_vars

(***************************************************************************)
(* Schemas of one file that define an enumeration E, a struct B, and two   *)
(* of the structs S and the unions U: flat unions whose base is B and      *)
(* whose discriminator is B's member, bases that lead back to the type,    *)
(* member names that differ only in '-' and '_'.                           *)
(***************************************************************************)
Mem(key, typ) == Item(key, typ, FALSE, <<>>)
EnumDef(name, values) ==
    Defn("enum", name, [i \in 1..Len(values) |-> Mem(values[i], NoName)])
StructDef(name, base, data) ==
    [Defn("struct", name, data) EXCEPT !.base = base]
UnionDef(name, base, discriminator, data) ==
    [Defn("union", name, data) EXCEPT !.base = base,
                                      !.discriminator = discriminator]

nE == <<"E">>
nB == <<"B">>
nS == <<"S">>
nU == <<"U">>
nx == <<"x">>
nx_y == <<"x", "_", "y">>
nxy == <<"x", "-", "y">>
ntag == <<"tag">>
nstr == <<"str">>
va == <<"a">>
vb == <<"b">>

ObjEnums ==
    {EnumDef(nE, <<va, vb>>),
     EnumDef(nE, <<va>>),
     StructDef(nE, NoRef, <<Mem(nx, nstr)>>)}

ObjBases ==
    {StructDef(nB, NoRef, <<Mem(ntag, nE)>>),
     StructDef(nB, NoRef, <<Mem(ntag, nE), Mem(nxy, nstr)>>),
     StructDef(nB, NoRef, <<Mem(<<"*">> \o ntag, nE)>>),
     StructDef(nB, NoRef, <<Mem(ntag, nstr)>>),
     StructDef(nB, NoRef, <<Item(ntag, nE, FALSE, <<"CONFIG_X">>)>>),
     StructDef(nB, NoRef, <<Mem(nxy, nE)>>),
     StructDef(nB, NameRef(nS), <<Mem(ntag, nE)>>)}

ObjStructs ==
    {StructDef(nS, NoRef, <<Mem(nx, nstr)>>),
     StructDef(nS, NoRef, <<Mem(nx_y, nstr)>>),
     StructDef(nS, NoRef, <<Mem(ntag, nstr)>>),
     StructDef(nS, NoRef, <<Mem(nxy, nstr), Mem(nx_y, nstr)>>),
     StructDef(nS, NameRef(nB), <<Mem(nx_y, nstr)>>),
     StructDef(nS, NameRef(nS), <<>>),
     StructDef(nS, NameRef(nU), <<>>)}

ObjUnions ==
    {UnionDef(nU, NameRef(nB), ntag, <<>>),
     UnionDef(nU, NameRef(nB), ntag, <<Mem(va, nS)>>),
     UnionDef(nU, NameRef(nB), ntag, <<Mem(va, nS), Mem(vb, nS)>>),
     UnionDef(nU, NameRef(nB), ntag, <<Mem(<<"c">>, nS)>>),
     UnionDef(nU, NameRef(nB), ntag, <<Mem(va, nU)>>),
     UnionDef(nU, NameRef(nB), ntag, <<Mem(va, nE)>>),
     UnionDef(nU, NameRef(nB), nxy, <<Mem(va, nS)>>),
     UnionDef(nU, NameRef(nB), nx_y, <<Mem(va, nS)>>),
     UnionDef(nU, NoRef, NoName, <<Mem(va, nS), Mem(vb, nstr)>>),
     UnionDef(nU, NoRef, NoName, <<Mem(vb, nstr), Mem(va, nS)>>),
     UnionDef(nU, NoRef, NoName, <<Mem(va, nS), Mem(vb, nS)>>),
     UnionDef(nU, NoRef, NoName, <<Item(va, nstr, TRUE, <<>>)>>)}

ObjDefs(line) ==
    CASE line = 1 -> ObjEnums
      [] line = 2 -> ObjBases
      [] OTHER -> ObjStructs \cup ObjUnions

NextObj ==
    \/ /\ phase = "parse"
       /\ \E d \in ObjDefs(TopParser.n + 1) : ParseDef(d)
    \/ ParseEOF
    \/ Compile

SpecObj == Init /\ [][NextObj]_vars

(***************************************************************************)
(* Schemas of one file that define an enumeration E, a type S and an       *)
(* alternate A of two or three branches.  The values of E are spelt by     *)
(* character: the validator looks at a value's first character.            *)
(***************************************************************************)
AlternateDef(name, data) == Defn("alternate", name, data)

nA == <<"A">>
nbool == <<"bool">>
nint == <<"int">>
nnumber == <<"number">>
nnull == <<"null">>
nany == <<"any">>
non == <<"o", "n">>
noff == <<"o", "f", "f">>
none == <<"o", "n", "e">>
BranchName(k) == <<<<"b", "1">>, <<"b", "2">>, <<"b", "3">>>>[k]

AltEnums ==
    {EnumDef(nE, <<nx>>),
     EnumDef(nE, <<none, nx>>),
     EnumDef(nE, <<nx, non>>),
     EnumDef(nE, <<noff>>),
     EnumDef(nE, <<<<"1", "x">>>>),
     EnumDef(nE, <<nx, <<"-", "x">>>>),
     EnumDef(nE, <<<<"+", "x">>>>),
     EnumDef(nE, <<<<".", "5">>>>),
     EnumDef(nE, <<non, <<"7">>>>)}

AltStructs ==
    {StructDef(nS, NoRef, <<Mem(nx, nstr)>>),
     EnumDef(nS, <<nx>>)}

AltTypes == {nE, nS, nstr, nbool, nint, nnumber, nnull}
AltTriples ==
    {<<nE, nbool, nstr>>, <<nbool, nE, nstr>>, <<nE, nnumber, nstr>>,
     <<nS, nnull, nint>>, <<nbool, nint, nE>>, <<nint, nbool, nS>>}
\* branches of the integer types and of number
AltNumeric ==
    {<<<<"int8">>, nint>>, <<nint, <<"uint64">>>>, <<<<"size">>, nnumber>>,
     <<nnumber, <<"int16">>>>, <<nbool, <<"int32">>, nnumber>>,
     <<<<"uint8">>, nS, <<"uint16">>>>}
AltBranchTypes ==
    {<<t1, t2>> : t1 \in AltTypes, t2 \in AltTypes}
    \cup AltTriples
    \cup {<<nany, nbool>>, <<nstr \o <<"List">>, nbool>>}
    \cup AltNumeric
AltAlternates ==
    {AlternateDef(nA, [k \in 1..Len(ts) |-> Mem(BranchName(k), ts[k])]) :
        ts \in AltBranchTypes}

\* the one definition a longer schema goes on with
AltTail == {StructDef(<<"Z">>, NoRef, <<Mem(nx, nA)>>)}

AltDefs(line) ==
    CASE line = 1 -> AltEnums
      [] line = 2 -> AltStructs
      [] line = 3 -> AltAlternates
      [] OTHER -> AltTail

NextAlt ==
    \/ /\ phase = "parse"
       /\ \E d \in AltDefs(TopParser.n + 1) : ParseDef(d)
    \/ ParseEOF
    \/ Compile

SpecAlt == Init /\ [][NextAlt]_vars

(***************************************************************************)
(* Schemas of one file whose definitions carry documentation: a struct S,  *)
(* an enumeration E, and a third definition that uses them.  A doc block   *)
(* names the members ("@name:") and the features it documents.             *)
(***************************************************************************)
WithDoc(d, args, features) == [d EXCEPT !.doc = <<Doc(d.name, args, features)>>]
WithFeatures(d, names) ==
    [d EXCEPT !.features = [i \in 1..Len(names) |-> Mem(names[i], NoName)]]
MemF(key, typ, names) ==
    [Mem(key, typ) EXCEPT
        !.features = [i \in 1..Len(names) |-> Mem(names[i], NoName)]]
CommandDef(name, arg) == [Defn("command", name, <<>>) EXCEPT !.arg = arg]
EventDef(name, arg) == [Defn("event", name, <<>>) EXCEPT !.arg = arg]

ny == <<"y">>
nf == <<"f">>
ng == <<"g">>
nT == <<"T">>
nC == <<"C">>
np == <<"p">>
nq == <<"q">>
ntype == <<"type">>
DocS == StructDef(nS, NoRef, <<Mem(nx, nstr)>>)
DocE == EnumDef(nE, <<va, vb>>)
DocU == UnionDef(nU, DictRef(<<Mem(ntag, nE)>>), ntag, <<Mem(va, nS)>>)
DocT == StructDef(nT, NameRef(nS), <<Mem(ny, nstr)>>)
DocA == AlternateDef(nA, <<Mem(BranchName(1), nstr)>>)
DocC == CommandDef(nC, DictRef(<<Mem(np, nstr)>>))
DocV == EventDef(nC, NameRef(nS))

DocStructs ==
    {DocS,
     WithDoc(DocS, <<>>, <<>>),
     WithDoc(DocS, <<nx>>, <<>>),
     WithDoc(DocS, <<ny>>, <<>>),
     WithDoc(DocS, <<nx, ny>>, <<>>),
     WithDoc(WithFeatures(DocS, <<nf>>), <<nx>>, <<nf>>),
     WithDoc(WithFeatures(DocS, <<nf>>), <<nx>>, <<>>),
     WithDoc(WithFeatures(DocS, <<nf>>), <<>>, <<nf, ng>>),
     [DocS EXCEPT !.doc = <<Doc(NoName, <<nx>>, <<>>)>>],
     WithFeatures(DocS, <<nf>>),
     StructDef(nS, NoRef, <<MemF(nx, nstr, <<nf>>)>>),
     WithDoc(StructDef(nS, NoRef, <<MemF(nx, nstr, <<nf>>)>>), <<nx>>, <<>>),
     WithDoc(StructDef(nS, NoRef, <<MemF(nx, nstr, <<nf>>)>>), <<nx>>, <<nf>>)}

DocEnums ==
    {DocE,
     WithDoc(DocE, <<va, vb>>, <<>>),
     WithDoc(DocE, <<va>>, <<>>),
     WithDoc(DocE, <<<<"c">>>>, <<>>)}

DocUsers ==
    {WithDoc(DocU, <<ntag>>, <<>>),
     WithDoc(DocU, <<va>>, <<>>),
     WithDoc(DocU, <<nx>>, <<>>),
     WithDoc(DocT, <<ny>>, <<>>),
     WithDoc(DocT, <<nx, ny>>, <<>>),
     WithDoc(DocA, <<BranchName(1)>>, <<>>),
     WithDoc(DocA, <<BranchName(2)>>, <<>>),
     WithDoc(DocC, <<np>>, <<>>),
     WithDoc(DocC, <<nq>>, <<>>),
     WithDoc(DocC, <<>>, <<nf>>),
     WithDoc(DocV, <<>>, <<>>),
     WithDoc(DocV, <<nx>>, <<>>)}

DocTail == {WithDoc(StructDef(<<"Z">>, NoRef, <<Mem(nx, nS)>>), <<nx>>, <<>>),
            WithDoc(StructDef(<<"Z">>, NoRef, <<Mem(nx, nS)>>), <<nS>>, <<>>),
            StructDef(<<"Z">>, NoRef, <<Mem(nx, <<"Q">>)>>)}

DocDefs(line) ==
    CASE line = 1 -> DocStructs
      [] line = 2 -> DocEnums
      [] line = 3 -> DocUsers
      [] OTHER -> DocTail

NextDoc ==
    \/ /\ phase = "parse"
       /\ \E d \in DocDefs(TopParser.n + 1) : ParseDef(d)
    \/ ParseEOF
    \/ Compile

SpecDoc == Init /\ [][NextDoc]_vars

(***************************************************************************)
(* Schemas of one file with commands and events: an optional pragma at     *)
(* the first line, then a struct S, an enumeration E, a union U and the    *)
(* commands C and events V that use them as argument or result, before or  *)
(* after the types are defined.  X is never defined.                       *)
(***************************************************************************)
Cmd(name, arg, boxed, ret, list) ==
    [Defn("command", name, <<>>) EXCEPT !.arg = arg, !.boxed = boxed,
                                        !.returns = Item(NoName, ret, list, <<>>)]
Evt(name, arg, boxed) ==
    [Defn("event", name, <<>>) EXCEPT !.arg = arg, !.boxed = boxed]

nV == <<"V">>
nX == <<"X">>

CmdPragmas ==
    {PragmaValue(TRUE, <<>>),
     PragmaValue(TRUE, <<nC>>),
     PragmaValue(TRUE, <<nS, nV>>),
     PragmaValue(FALSE, <<>>)}

CmdTypes ==
    {StructDef(nS, NoRef, <<Mem(nx, nstr)>>),
     EnumDef(nE, <<va>>),
     UnionDef(nU, NoRef, NoName, <<Mem(va, nstr)>>)}

CmdReturns ==
    {Cmd(nC, NoRef, FALSE, nS, FALSE),
     Cmd(nC, NoRef, FALSE, nS, TRUE),
     Cmd(nC, NoRef, FALSE, nU, FALSE),
     Cmd(nC, NoRef, FALSE, nE, FALSE),
     Cmd(nC, NoRef, FALSE, nE, TRUE),
     Cmd(nC, NoRef, FALSE, nstr, FALSE),
     Cmd(nC, NoRef, FALSE, nstr, TRUE),
     Cmd(nC, NoRef, FALSE, nX, FALSE),
     Cmd(nC, NoRef, FALSE, nX, TRUE)}

CmdArgs ==
    {Cmd(nC, NameRef(nS), FALSE, NoName, FALSE),
     Cmd(nC, NameRef(nS), TRUE, NoName, FALSE),
     Cmd(nC, NameRef(nU), FALSE, NoName, FALSE),
     Cmd(nC, NameRef(nU), TRUE, NoName, FALSE),
     Cmd(nC, NameRef(nU), TRUE, nE, FALSE),
     Cmd(nC, NameRef(nE), TRUE, NoName, FALSE),
     Cmd(nC, NameRef(nX), FALSE, NoName, FALSE),
     Cmd(nC, DictRef(<<Mem(np, nE)>>), FALSE, NoName, FALSE),
     Evt(nV, NameRef(nS), FALSE),
     Evt(nV, NameRef(nU), FALSE),
     Evt(nV, NameRef(nU), TRUE),
     Evt(nV, NameRef(nstr), TRUE),
     Evt(nV, NameRef(nX), FALSE),
     Evt(nV, NoRef, FALSE)}

CmdTail ==
    {StructDef(nX, NameRef(nS), <<Mem(ny, nE)>>),
     StructDef(nX, NoRef, <<Mem(nx, nV)>>),
     Evt(nV, NameRef(nS), FALSE)}

CmdDefs(k) ==
    CASE k = 1 -> CmdTypes \cup {Cmd(nC, NoRef, FALSE, nS, TRUE),
                                 Cmd(nC, NoRef, FALSE, nE, FALSE),
                                 Evt(nV, NameRef(nU), FALSE),
                                 Evt(nV, NameRef(nU), TRUE)}
      [] k = 2 -> CmdTypes \cup CmdReturns \cup CmdArgs
      [] k = 3 -> CmdTypes
      [] OTHER -> CmdTail

NextCmd ==
    \/ /\ phase = "parse" /\ TopParser.n = 0
       /\ \E v \in CmdPragmas : ParsePragma(v)
    \/ /\ phase = "parse"
       /\ \E d \in CmdDefs(ExprsSoFar + 1) : ParseDef(d)
    \/ ParseEOF
    \/ Compile

SpecCmd == Init /\ [][NextCmd]_vars

(***************************************************************************)
(* Schemas of one file whose definitions ask for implicit types: simple    *)
(* unions U and W with branches of type S, [S] or str (wrapper types,      *)
(* array types, the unions' 'Kind' enumerations), a struct T with members  *)
(* of type [S], a command and an event with inline 'data', and the struct  *)
(* S itself, in any order and possibly more than once.                     *)
(***************************************************************************)
nW == <<"W">>

WrapPool ==
    {StructDef(nS, NoRef, <<Mem(nx, nstr)>>),
     UnionDef(nU, NoRef, NoName, <<Mem(va, nS)>>),
     UnionDef(nU, NoRef, NoName, <<Mem(va, nS), Mem(vb, nS)>>),
     UnionDef(nU, NoRef, NoName, <<Mem(va, nstr), Item(vb, nstr, TRUE, <<>>)>>),
     UnionDef(nW, NoRef, NoName, <<Mem(va, nS)>>),
     UnionDef(nW, NoRef, NoName,
              <<Item(va, nS, TRUE, <<>>), Item(vb, nS, TRUE, <<>>)>>),
     StructDef(nT, NoRef,
               <<Item(nx, nS, TRUE, <<>>), Item(ny, nS, TRUE, <<>>)>>),
     CommandDef(nC, DictRef(<<Mem(np, nstr)>>)),
     EventDef(nC, DictRef(<<Mem(np, nstr)>>))}

WrapTail ==
    {StructDef(nS, NoRef, <<Mem(nx, nstr)>>),
     UnionDef(nW, NoRef, NoName, <<Mem(vb, nS)>>)}

WrapDefs(k) == IF k <= 3 THEN WrapPool ELSE WrapTail

NextWrap ==
    \/ /\ phase = "parse"
       /\ \E d \in WrapDefs(ExprsSoFar + 1) : ParseDef(d)
    \/ ParseEOF
    \/ Compile

SpecWrap == Init /\ [][NextWrap]_vars

(***************************************************************************)
(* Schema files as sequences of items: documentation blocks (of the        *)
(* file's struct, or free-form), the definition of the struct, an include  *)
(* of the file b, a pragma, in any order.  The file a defines S, the file  *)
(* b defines T.                                                            *)
(***************************************************************************)
SeqName(fname) == IF fname = RootFname THEN nS ELSE nT
SeqDocs(fname) ==
    {Doc(SeqName(fname), <<nx>>, <<>>), Doc(NoName, <<>>, <<>>)}
SeqDefs(fname) == {StructDef(SeqName(fname), NoRef, <<Mem(nx, nstr)>>)}

NextSeq ==
    \/ /\ phase = "parse" /\ TopParser.n < MaxExprs
       /\ \E d \in SeqDocs(TopParser.fname) : ParseDoc(d)
    \/ /\ phase = "parse"
       /\ \E d \in SeqDefs(TopParser.fname) : ParseDef(d)
    \/ /\ phase = "parse"
       /\ \E i \in {<<"b">>} : ParseInclude(i)
    \/ /\ phase = "parse" /\ TopParser.n < MaxExprs
       /\ \E v \in {PragmaValue(TRUE, <<nC>>)} : ParsePragma(v)
    \/ ParseEOF
    \/ Compile

SpecSeq == Init /\ [][NextSeq]_vars

(***************************************************************************)
(* Schema files whose documentation blocks are read line by line: up to    *)
(* MaxItems blocks of up to MaxLines lines each, and then the definition   *)
(* of the struct S, with member x and possibly the feature f.              *)
(***************************************************************************)
DocLines ==
    {DocLine("sym", nS), DocLine("sym", nx), DocLine("symtext", nx),
     DocLine("symtext", nf), DocLine("features", NoName),
     DocLine("tag", <<"Returns">>), DocLine("tag", <<"Since">>),
     DocLine("text", NoName), DocLine("indented", NoName),
     DocLine("blank", NoName)}

LinesDefs ==
    {StructDef(nS, NoRef, <<Mem(nx, nstr)>>),
     WithFeatures(StructDef(nS, NoRef, <<Mem(nx, nstr)>>), <<nf>>)}

NextLines ==
    \/ /\ phase = "parse" /\ TopParser.n < MaxItems
       /\ TopParser.exprs = <<>>
       /\ DocStart
    \/ /\ phase = "parse" /\ Len(TopParser.lines) < MaxLines
       /\ \E l \in DocLines : DocAppend(l)
    \/ DocEnd
    \/ /\ phase = "parse" /\ TopParser.doc = <<>>
       /\ \E d \in LinesDefs : ParseDef(d)
    \/ /\ phase = "parse" /\ TopParser.doc = <<>>
       /\ ParseEOF
    \/ Compile

SpecLines == Init /\ [][NextLines]_vars

(***************************************************************************)
(* Schema files read character by character: lines of up to MaxCol tabs    *)
(* and other characters before the cursor, a stray character anywhere,     *)
(* and the definition of the struct S on lines of its own.                 *)
(***************************************************************************)
Chars == {Tab, "x"}

NextCol ==
    \/ /\ phase = "parse" /\ Len(TopParser.src) < MaxCol
       /\ \E ch \in Chars : Accept(ch)
    \/ AcceptNewline
    \/ ParseError
    \/ /\ phase = "parse" /\ TopParser.src = <<>>
       /\ \E d \in {StructDef(nS, NoRef, <<Mem(nx, nstr)>>)} : ParseDef(d)
    \/ /\ phase = "parse" /\ TopParser.src = <<>>
       /\ ParseEOF
    \/ Compile

SpecCol == Init /\ [][NextCol]_vars

(***************************************************************************)
(* Schema files that start with up to MaxPragmas pragma directives, well   *)
(* formed or not, followed by the struct S and a command C that returns    *)
(* the enumeration E or the built-in str.                                  *)
(***************************************************************************)
PragmaBody(body) == PragmaExpr({"pragma"}, TRUE, body)

PragmaExprs ==
    {PragmaBody(<<PragmaOption("doc-required", BoolValue(TRUE))>>),
     PragmaBody(<<PragmaOption("returns-whitelist",
                               PragmaValue(TRUE, <<nC>>))>>),
     PragmaBody(<<PragmaOption("name-case-whitelist",
                               PragmaValue(TRUE, <<nS>>))>>),
     PragmaBody(<<PragmaOption("returns-whitelist", PragmaValue(TRUE, <<>>)),
                  PragmaOption("doc-required", BoolValue(FALSE))>>),
     PragmaBody(<<>>),
     PragmaBody(<<PragmaOption("doc-required", PragmaValue(TRUE, <<>>))>>),
     PragmaBody(<<PragmaOption("returns-whitelist", BoolValue(TRUE))>>),
     PragmaBody(<<PragmaOption("name-case-whitelist", MixedList(<<nS>>))>>),
     PragmaBody(<<PragmaOption("doc-required", BoolValue(TRUE)),
                  PragmaOption("unknown", BoolValue(TRUE))>>),
     PragmaExpr({"pragma"}, FALSE, <<>>),
     PragmaExpr({"pragma", "data"}, TRUE,
                <<PragmaOption("doc-required", BoolValue(TRUE))>>)}

PragmaDefs(k) ==
    CASE k = 1 -> {StructDef(nS, NoRef, <<Mem(nx, nstr)>>),
                   EnumDef(nE, <<va>>)}
      [] k = 2 -> {Cmd(nC, NoRef, FALSE, nE, FALSE),
                   Cmd(nC, NoRef, FALSE, nstr, FALSE)}
      [] OTHER -> {}

NextPragma ==
    \/ /\ phase = "parse" /\ ExprsSoFar = 0
       /\ Len(TopParser.pragmas) < MaxPragmas
       /\ \E e \in PragmaExprs : ParsePragmaExpr(e)
    \/ /\ phase = "parse"
       /\ \E d \in PragmaDefs(ExprsSoFar + 1) : ParseDef(d)
    \/ ParseEOF
    \/ Compile

SpecPragma == Init /\ [][NextPragma]_vars

(***************************************************************************)
(* Schemas of one file with up to MaxExprs - 1 definitions of the structs  *)
(* S and T that refer to themselves and to each other, through local       *)
(* members (of the type or of its list) and through bases.                 *)
(***************************************************************************)
RecStructs ==
    {StructDef(nS, NoRef, <<Mem(nx, nS)>>),
     StructDef(nS, NoRef, <<Mem(nx, nT)>>),
     StructDef(nS, NameRef(nT), <<>>),
     StructDef(nS, NameRef(nT), <<Mem(nx, nS)>>),
     StructDef(nT, NoRef, <<Mem(ny, nS)>>),
     StructDef(nT, NoRef, <<Mem(ny, nstr)>>),
     StructDef(nT, NoRef, <<Item(ny, nT, TRUE, <<>>)>>),
     StructDef(nT, NameRef(nS), <<Mem(ny, nT)>>),
     StructDef(nT, NameRef(nT), <<>>)}

NextRec ==
    \/ /\ phase = "parse" /\ ExprsSoFar < MaxExprs - 1
       /\ \E d \in RecStructs : ParseDef(d)
    \/ ParseEOF
    \/ Compile

SpecRec == Init /\ [][NextRec]_vars

(***************************************************************************)
(* Schemas of one file for gen_introspect: a struct S, a second type T     *)
(* (struct, alternate, enumeration or union), then commands and events     *)
(* that reach S, T, both or neither.  S and T refer to integer types, to   *)
(* lists, to themselves and to each other.                                 *)
(***************************************************************************)
IntroS ==
    {StructDef(nS, NoRef, <<Mem(nx, <<"int8">>)>>),
     StructDef(nS, NoRef, <<Item(nx, <<"uint16">>, TRUE, <<>>)>>),
     StructDef(nS, NoRef, <<Mem(nx, nS)>>),
     StructDef(nS, NoRef, <<Mem(nx, nT)>>)}

IntroT ==
    {StructDef(nT, NoRef, <<Item(ny, nS, TRUE, <<>>)>>),
     StructDef(nT, NameRef(nS), <<Mem(ny, nint)>>),
     AlternateDef(nT, <<Mem(BranchName(1), nstr), Mem(BranchName(2), nS)>>),
     EnumDef(nT, <<va>>),
     UnionDef(nT, NoRef, NoName, <<Mem(va, nS)>>)}

IntroC ==
    {Cmd(nC, NameRef(nS), FALSE, NoName, FALSE),
     Cmd(nC, NoRef, FALSE, nT, TRUE),
     Cmd(nC, DictRef(<<Mem(np, nT)>>), FALSE, nS, FALSE),
     Cmd(nC, NoRef, FALSE, NoName, FALSE),
     Evt(nV, NameRef(nS), FALSE),
     Evt(nV, DictRef(<<Mem(np, <<"size">>)>>), FALSE),
     Evt(nV, NoRef, FALSE)}

IntroTail == {Evt(nW, NameRef(nT), FALSE), Cmd(nW, NoRef, FALSE, nS, TRUE)}

IntroDefs(k) ==
    CASE k = 1 -> IntroS
      [] k = 2 -> IntroT
      [] k = 3 -> IntroC
      [] OTHER -> IntroTail

NextIntro ==
    \/ /\ phase = "parse"
       /\ \E d \in IntroDefs(ExprsSoFar + 1) : ParseDef(d)
    \/ ParseEOF
    \/ Compile
    \/ Introspect

SpecIntro == Init /\ [][NextIntro]_vars

\* the loops of gen_introspect run to their end
SpecIntroFair == SpecIntro /\ WF_vars(Introspect)

(***************************************************************************)
(* Properties of include handling (SpecInc).                               *)
(***************************************************************************)
IncludeIdx == {i \in 1..Len(exprs) : exprs[i].kind = "include"}
DefIdx == {i \in 1..Len(exprs) : exprs[i].kind = "def"}
NamedIdx == {i \in 1..Len(entity_list) : entity_list[i].name # NoName}

\* C3: a file is opened and parsed at most once however many include
\* directives name it, so the expressions the parser returns hold every
\* line of a file once, no definition fails as a redefinition, and no two
\* entities of the model share a name.
ParsedOnce ==
    /\ NoDup(opened)
    /\ \A i, j \in DefIdx :
           (abspath(exprs[i].info.fname) = abspath(exprs[j].info.fname)
            /\ exprs[i].info.line = exprs[j].info.line) => i = j
    /\ err.msg # "is already defined"
    /\ \A i, j \in NamedIdx :
           entity_list[i].name = entity_list[j].name => i = j

\* a compilation that went through, in which two directives of different
\* files name a file that holds a definition
ParsedOnceWitness ==
    /\ phase = "visited"
    /\ \E i, j \in IncludeIdx :
           /\ exprs[i].info.fname # exprs[j].info.fname
           /\ abspath(exprs[i].include) = abspath(exprs[j].include)
           /\ \E k \in DefIdx :
                  abspath(exprs[k].info.fname) = abspath(exprs[i].include)

\* C4: a step of the parser that reads an include directive whose target
\* is a file of the chain being included ends in the error "inclusion
\* loop".
InclusionLoopFails ==
    [][(/\ phase = "parse"
        /\ pstack' # <<>>
        /\ Len(pstack') >= Len(pstack)
        /\ pstack'[Len(pstack)].n = TopParser.n + 1
        /\ Last(pstack'[Len(pstack)].exprs).kind = "include"
        /\ \E i \in 1..Len(pstack) :
               abspath(Last(pstack'[Len(pstack)].exprs).include)
                   = abspath(pstack[i].fname))
       => (phase' = "error" /\ err'.msg = "inclusion loop")]_vars

\* an included file's directive named the root file, which is in the
\* set of included files, and the parser failed
InclusionLoopWitness ==
    /\ phase = "error"
    /\ err.msg = "inclusion loop"
    /\ Len(pstack) >= 2
    /\ Last(TopParser.exprs).kind = "include"
    /\ abspath(Last(TopParser.exprs).include) = abspath(pstack[1].fname)
    /\ abspath(Last(TopParser.exprs).include) \in included

\* C10: visit() visits the built-in module, then the root file's, then
\* the included files' in the order the parser opened them; the entities
\* of a module are visited once each, in the order of the expressions
\* that defined them.
ExprPos(info) ==
    IF info = NoInfo THEN 0
    ELSE CHOOSE i \in 1..Len(exprs) : exprs[i].info = info
ModuleCalls == SelectSeq(visitlog, LAMBDA c : c.cb = "visit_module")
EntityCalls == SelectSeq(visitlog, LAMBDA c : c.cb = "visit_entity")
VisitOrder ==
    phase = "visited" =>
        /\ [i \in 1..Len(ModuleCalls) |-> ModuleCalls[i].module]
               = <<NoName>> \o
                 [i \in 1..Len(opened) |->
                     SubSeq(opened[i], Len(Cwd) + 1, Len(opened[i]))]
        /\ \A i \in 1..Len(entity_list) :
               \E j \in 1..Len(EntityCalls) :
                   /\ EntityCalls[j].ent = i
                   /\ \A k \in 1..Len(EntityCalls) :
                          EntityCalls[k].ent = i => k = j
        /\ \A i, j \in 1..Len(EntityCalls) :
               (i < j /\ EntityCalls[i].module = EntityCalls[j].module)
               => /\ EntityCalls[i].ent < EntityCalls[j].ent
                  /\ ExprPos(entity_list[EntityCalls[i].ent].info)
                         <= ExprPos(entity_list[EntityCalls[j].ent].info)

\* three files were read, and the module of an included file holds a
\* type and the array type a later expression of another file made of it
VisitOrderWitness ==
    /\ phase = "visited"
    /\ Len(opened) = 3
    /\ \E i, j \in 1..Len(EntityCalls) :
           /\ i < j
           /\ EntityCalls[i].module = EntityCalls[j].module
           /\ EntityCalls[i].module \notin {NoName, _module_name(RootFname)}
           /\ entity_list[EntityCalls[j].ent].cls = "array"
           /\ entity_list[EntityCalls[j].ent].info.fname
                  # entity_list[EntityCalls[i].ent].info.fname

(***************************************************************************)
(* Properties of object types (SpecObj).                                   *)
(***************************************************************************)
ObjectIdx == {i \in 1..Len(entity_list) : entity_list[i].cls = "object"}
\* the object types whose check() has completed
CompletedIdx == {i \in ObjectIdx : entity_list[i].members # <<>>}
FlatUnionIdx ==
    {i \in CompletedIdx :
        /\ entity_list[i].variants # <<>>
        /\ entity_list[i].variants[1].tag_name # NoName}
Branches(i) == entity_list[i].variants[1].variants
BranchNames(i) == {Branches(i)[k].name : k \in 1..Len(Branches(i))}
TagEnum(i) ==
    TypeOf(entity_list, entity_dict,
           entity_list[i].variants[1].tag_member[1].type)
\* the 'data' of the expression that defined entity i
DataOf(i) ==
    LET k == CHOOSE k \in DefIdx : exprs[k].info = entity_list[i].info
    IN  exprs[k].defn[1].data
DataKeys(i) == {DataOf(i)[k].key : k \in 1..Len(DataOf(i))}

\* C1: a flat union whose check() has completed has one branch for each
\* member of the discriminator's enumeration type and no other branch;
\* the branches the union's 'data' does not name are of type q_empty, the
\* others of the type 'data' gives.
AutoFillTotal ==
    \A i \in FlatUnionIdx :
        /\ TagEnum(i).cls = "enum"
        /\ BranchNames(i) = Range(member_names(TagEnum(i)))
        /\ Cardinality(BranchNames(i)) = Len(Branches(i))
        /\ \A k \in 1..Len(Branches(i)) :
               IF Branches(i)[k].name \in DataKeys(i)
               THEN \E d \in 1..Len(DataOf(i)) :
                        /\ DataOf(i)[d].key = Branches(i)[k].name
                        /\ DataOf(i)[d].type = Branches(i)[k].type_name
               ELSE Branches(i)[k].type_name = <<"q_", "empty">>

\* validation is over, and a flat union without 'data' has a branch for
\* each of the two values of its discriminator
AutoFillWitness ==
    /\ phase = "visited"
    /\ \E i \in FlatUnionIdx :
           /\ DataOf(i) = <<>>
           /\ Cardinality(BranchNames(i)) = 2

CNames(members) == [k \in 1..Len(members) |-> c_name(members[k].name)]
MembersOf(name) == TypeOf(entity_list, entity_dict, name).members

\* C2: the members of an object type whose check() has completed are its
\* base's members followed by its own, their mangled names differ
\* pairwise, and so do those of the members together with the members of
\* any one branch's type.  (check() completes or raises: a type with two
\* members of one mangled name never completes.)
NoMemberClash ==
    \A i \in CompletedIdx :
        LET ent == entity_list[i]
            ms == ent.members[1]
        IN  /\ NoDup(CNames(ms))
            /\ [k \in 1..Len(ms) |-> ms[k].name]
               = [k \in 1..Len(ms) |->
                    ((IF ent.base = NoName THEN <<>>
                      ELSE MembersOf(ent.base)[1])
                     \o ent.local_members)[k].name]
            /\ ent.variants # <<>> =>
                   \A k \in 1..Len(Branches(i)) :
                       /\ MembersOf(Branches(i)[k].type) # <<>>
                       /\ NoDup(CNames(ms \o
                                       MembersOf(Branches(i)[k].type)[1]))

\* validation is over, and a union with two members from its base has
\* two branches, whose types have a member of the same name
NoMemberClashWitness ==
    /\ phase = "visited"
    /\ \E i \in CompletedIdx :
           /\ entity_list[i].variants # <<>>
           /\ entity_list[i].base # NoName
           /\ Len(entity_list[i].members[1]) = 2
           /\ \E j, k \in 1..Len(Branches(i)) :
                  /\ j # k
                  /\ MembersOf(Branches(i)[j].type)[1] # <<>>
                  /\ MembersOf(Branches(i)[j].type)
                         = MembersOf(Branches(i)[k].type)

\* the object types a type's C struct holds: its base and its branches'
Contained(i) ==
    LET ent == entity_list[i]
        names == (IF ent.base_name = NoName THEN {} ELSE {ent.base_name})
                 \cup (IF ent.variants = <<>> THEN {}
                       ELSE {ent.variants[1].variants[k].type_name :
                                k \in 1..Len(ent.variants[1].variants)})
    IN  {j \in ObjectIdx : entity_list[j].name \in names
                           /\ entity_dict[entity_list[j].name] = j}
RECURSIVE ReachFrom(_, _)
ReachFrom(set, n) ==
    LET more == set \cup UNION {Contained(j) : j \in set}
    IN  IF n = 0 \/ more = set THEN set ELSE ReachFrom(more, n - 1)
ContainsItself(i) == i \in ReachFrom(Contained(i), Cardinality(ObjectIdx))

\* C7: a check() called on an object type whose check() has started and
\* has not set members raises "object contains itself" naming the type;
\* an object type that contains itself never has members set, and
\* validation never completes with such a type in the schema.
SelfContainmentRejected ==
    [][/\ (/\ phase = "check"
           /\ cstack # <<>>
           /\ Last(cstack).pc = "enter"
           /\ entity_list[Last(cstack).ent].checked
           /\ entity_list[Last(cstack).ent].members = <<>>)
          => /\ phase' = "error"
             /\ err' = SemError("object contains itself",
                                entity_list[Last(cstack).ent].name, NoName)
       /\ \A i \in ObjectIdx' :
              (\/ entity_list'[i].members # <<>>
               \/ phase' \in {"setmod", "ready", "visited"})
              => ~ContainsItself(i)']_vars

\* the check() of a type called its base's check(), which called the
\* check() of its own base, the first type, and that raised
SelfContainmentWitness ==
    /\ phase = "error"
    /\ err.msg = "object contains itself"
    /\ Len(cstack) = 3
    /\ cstack[1].ent = cstack[3].ent
    /\ cstack[1].ent # cstack[2].ent
    /\ err.who = entity_list[cstack[1].ent].name

(***************************************************************************)
(* Properties of alternates (SpecAlt).                                     *)
(***************************************************************************)
AltIdx == {i \in 1..Len(entity_list) : entity_list[i].cls = "alternate"}
AltBranches(i) == entity_list[i].variants[1].variants
BranchType(i, k) ==
    TypeOf(entity_list, entity_dict, AltBranches(i)[k].type_name)
\* check() of alternate i raised; it returned
AltFailed(i) == phase = "error" /\ ci = i /\ entity_list[i].checked
AltPassed(i) == entity_list[i].checked /\ ~AltFailed(i)
Indistinct(i) == AltFailed(i) /\ err.msg = "can't be distinguished from"
BranchOf(i, name) ==
    CHOOSE k \in 1..Len(AltBranches(i)) : AltBranches(i)[k].name = name
Kind(i, k) == alternate_qtype(BranchType(i, k))

\* C5, as the code has it: the branches of an alternate whose check() has
\* returned are of pairwise different kinds; when check() raises "can't
\* be distinguished from", the branch it names comes before the branch
\* it rejects, and is of the same kind or one of the two is a string.
DistinctKinds ==
    \A i \in AltIdx :
        /\ AltPassed(i) =>
               \A j, k \in 1..Len(AltBranches(i)) :
                   j # k => /\ Kind(i, j) # Kind(i, k)
                            /\ Kind(i, j) # ""
        /\ Indistinct(i) =>
               /\ \E k \in 1..Len(AltBranches(i)) :
                      AltBranches(i)[k].name = err.who
               /\ \E j \in 1..Len(AltBranches(i)) :
                      AltBranches(i)[j].name = err.other
               /\ BranchOf(i, err.other) < BranchOf(i, err.who)
               /\ \/ Kind(i, BranchOf(i, err.other))
                         = Kind(i, BranchOf(i, err.who))
                  \/ "QTYPE_QSTRING" \in {Kind(i, BranchOf(i, err.other)),
                                          Kind(i, BranchOf(i, err.who))}

\* an alternate's second branch is of the kind of its first, and check()
\* raised naming the first
DistinctKindsWitness ==
    \E i \in AltIdx :
        /\ Indistinct(i)
        /\ Len(AltBranches(i)) = 2
        /\ AltBranches(i)[1].type_name = nint
        /\ AltBranches(i)[2].type_name = nnumber
        /\ err.who = BranchName(2)
        /\ err.other = BranchName(1)

\* C5, as stated: when the rejected branch is of the kind of an earlier
\* branch, the error names that earlier branch.
NamesSameKindBranch ==
    \A i \in AltIdx :
        Indistinct(i) =>
            ((\E j \in 1..(BranchOf(i, err.who) - 1) :
                  Kind(i, j) = Kind(i, BranchOf(i, err.who)))
             => Kind(i, BranchOf(i, err.other))
                    = Kind(i, BranchOf(i, err.who)))

IsString(t) ==
    t.cls = "enum" \/ (t.cls = "builtin" /\ t.json_type = "string")
IsBoolean(t) == t.cls = "builtin" /\ t.json_type = "boolean"
IsNumeric(t) == t.cls = "builtin" /\ t.json_type \in {"number", "int"}
ValuesOf(t) == {t.enum_members[k].name : k \in 1..Len(t.enum_members)}
LooksBoolean(t) ==
    t.cls = "enum" => \E v \in ValuesOf(t) : v = non \/ v = noff
LooksNumeric(t) ==
    t.cls = "enum" =>
        \E v \in ValuesOf(t) :
            v[1] \in {"0", "1", "2", "3", "4", "5", "6", "7", "8", "9",
                      "+", "-", "."}
Ambiguous(s, o) ==
    /\ IsString(s)
    /\ \/ IsBoolean(o) /\ LooksBoolean(s)
       \/ IsNumeric(o) /\ LooksNumeric(s)

\* C6: check() of an alternate of a string branch and a boolean or numeric
\* branch, in either order, raises "can't be distinguished from" if the
\* string type is not an enumeration, or is one with a value 'on' or
\* 'off' beside a boolean, or one with a value that starts with a digit,
\* '+', '-' or '.' beside a number; otherwise it returns.  No alternate
\* whose check() returned has two such branches.
StringConflicts ==
    \A i \in AltIdx :
        /\ AltPassed(i) =>
               \A j, k \in 1..Len(AltBranches(i)) :
                   ~Ambiguous(BranchType(i, j), BranchType(i, k))
        /\ (/\ entity_list[i].checked
            /\ Len(AltBranches(i)) = 2
            /\ \E j, k \in 1..2 :
                   /\ IsString(BranchType(i, j))
                   /\ IsBoolean(BranchType(i, k))
                      \/ IsNumeric(BranchType(i, k)))
           => (Indistinct(i) <=>
                  \E j, k \in 1..2 :
                      Ambiguous(BranchType(i, j), BranchType(i, k)))
           /\ (AltPassed(i) \/ Indistinct(i))

\* validation is over for an alternate of a boolean and an enumeration
\* whose values are letters only, one of them starting with "on"
StringConflictsWitness ==
    /\ phase = "visited"
    /\ \E i \in AltIdx :
           /\ Len(AltBranches(i)) = 2
           /\ \E j, k \in 1..2 :
                  /\ IsBoolean(BranchType(i, j))
                  /\ BranchType(i, k).cls = "enum"
                  /\ none \in ValuesOf(BranchType(i, k))

(***************************************************************************)
(* Properties of documentation (SpecDoc).                                  *)
(***************************************************************************)
DocumentedIdx == {i \in 1..Len(entity_list) : entity_list[i].doc # <<>>}
\* the doc block of entity i as the parser returned it
ParsedDoc(i) ==
    LET k == CHOOSE k \in DefIdx :
                 /\ exprs[k].info = entity_list[i].info
                 /\ exprs[k].defn[1].name = entity_list[i].name
    IN  exprs[k].defn[1].doc[1]
SectionNames(sections) == {sections[k].name : k \in 1..Len(sections)}
NamesOf(members) == {members[k].name : k \in 1..Len(members)}
\* the members of the implicit object type of this name, if it is one
ImplicitMembers(name) ==
    IF name # NoName /\ name \in DOMAIN entity_dict
       /\ entity_list[entity_dict[name]].cls = "object"
       /\ is_implicit(entity_list[entity_dict[name]])
    THEN NamesOf(entity_list[entity_dict[name]].local_members)
    ELSE {}
\* the names a doc block of the entity may document as members
DocumentableMembers(ent) ==
    CASE ent.cls = "enum" -> NamesOf(ent.enum_members)
      [] ent.cls = "object" ->
             NamesOf(ent.local_members) \cup ImplicitMembers(ent.base_name)
      [] ent.cls = "alternate" -> NamesOf(ent.variants[1].variants)
      [] ent.cls \in {"command", "event"} ->
             ImplicitMembers(ent.arg_type_name)
      [] OTHER -> {}
\* the features of the members a doc block of the entity may document
FeaturesIn(members) ==
    UNION {NamesOf(members[k].features) : k \in 1..Len(members)}
ImplicitMemberFeatures(name) ==
    IF name # NoName /\ name \in DOMAIN entity_dict
       /\ entity_list[entity_dict[name]].cls = "object"
       /\ is_implicit(entity_list[entity_dict[name]])
    THEN FeaturesIn(entity_list[entity_dict[name]].local_members)
    ELSE {}
MemberFeatures(ent) ==
    CASE ent.cls = "object" ->
             FeaturesIn(ent.local_members)
                 \cup ImplicitMemberFeatures(ent.base_name)
      [] ent.cls \in {"command", "event"} ->
             ImplicitMemberFeatures(ent.arg_type_name)
      [] OTHER -> {}
Undocumentable(i) ==
    (SectionNames(ParsedDoc(i).args)
        \ DocumentableMembers(entity_list[i]))
    \cup (SectionNames(ParsedDoc(i).features)
            \ (NamesOf(entity_list[i].features)
                  \cup MemberFeatures(entity_list[i])))
NoSuchMember == "documented member does not exist"

\* C8: the error "documented member ... does not exist" is raised after
\* the parser has returned the expression with its doc block, by the
\* loop of check() on an entity whose own check() has returned, and it
\* names a section of the doc block that is no member and no feature of
\* the definition; validation never completes while a doc block has such
\* a section.
DocCheckedLate ==
    /\ err.msg = NoSuchMember =>
           /\ pstack = <<>>
           /\ ci \in DocumentedIdx
           /\ entity_list[ci].checked
           /\ \A i \in 1..(ci - 1) : entity_list[i].checked
           /\ err.who \in Undocumentable(ci)
    /\ phase \in {"parse", "parsed", "def"} => err.msg # NoSuchMember
    /\ phase \in {"setmod", "ready", "visited"} =>
           \A i \in DocumentedIdx : Undocumentable(i) = {}

\* the doc block of a struct documents its member and a name the struct
\* has no member of; the parser returned it, check() rejected it
DocCheckedLateWitness ==
    /\ phase = "error"
    /\ err.msg = NoSuchMember
    /\ entity_list[ci].cls = "object"
    /\ SectionNames(ParsedDoc(ci).args) = {nx, ny}
    /\ err.who = ny
    /\ entity_list[ci].members # <<>>

(***************************************************************************)
(* Properties of simple unions (SpecObj).                                  *)
(***************************************************************************)
\* the expressions that define a union without discriminator
SimpleUnionIdx ==
    {k \in DefIdx : /\ exprs[k].defn[1].meta = "union"
                    /\ exprs[k].defn[1].discriminator = NoName}
Built == phase \in {"check", "setmod", "ready", "visited"}
EntityNamed(name) == entity_list[entity_dict[name]]
\* the name of the type of a branch as 'data' gives it
DataType(item) == IF item.list THEN item.type \o <<"List">> ELSE item.type
WrapperName(item) == <<"q_", "obj_">> \o DataType(item) \o <<"-", "wrapper">>

\* C9: once every expression is defined, a union N without discriminator
\* comes with the enumeration NKind of the branch names in the order of
\* 'data', has the one local member 'type', not optional and of type
\* NKind, which is its tag, and has for each branch, in order, a branch
\* of type q_obj_<type>-wrapper, an object type without base or variants
\* whose one member is 'data', not optional and of the branch's type.
SimpleUnionShape ==
    Built =>
        \A k \in SimpleUnionIdx :
            LET expr == exprs[k].defn[1]
                kind == expr.name \o <<"Kind">>
            IN  /\ {expr.name, kind} \subseteq DOMAIN entity_dict
                /\ EntityNamed(kind).cls = "enum"
                /\ member_names(EntityNamed(kind))
                       = [b \in 1..Len(expr.data) |-> expr.data[b].key]
                /\ EntityNamed(expr.name).cls = "object"
                /\ EntityNamed(expr.name).info = exprs[k].info
                /\ Len(EntityNamed(expr.name).local_members) = 1
                /\ EntityNamed(expr.name).local_members[1].name = ntype
                /\ EntityNamed(expr.name).local_members[1].type_name = kind
                /\ ~EntityNamed(expr.name).local_members[1].optional
                /\ EntityNamed(expr.name).variants[1].tag_member[1].name
                       = ntype
                /\ Len(EntityNamed(expr.name).variants[1].variants)
                       = Len(expr.data)
                /\ \A b \in 1..Len(expr.data) :
                       LET v == EntityNamed(expr.name).variants[1].variants[b]
                           w == WrapperName(expr.data[b])
                       IN  /\ v.name = expr.data[b].key
                           /\ v.type_name = w
                           /\ w \in DOMAIN entity_dict
                           /\ EntityNamed(w).cls = "object"
                           /\ EntityNamed(w).base_name = NoName
                           /\ EntityNamed(w).variants = <<>>
                           /\ Len(EntityNamed(w).local_members) = 1
                           /\ EntityNamed(w).local_members[1].name
                                  = <<"data">>
                           /\ EntityNamed(w).local_members[1].type_name
                                  = DataType(expr.data[b])
                           /\ ~EntityNamed(w).local_members[1].optional

\* validation is over for a union of the branches b, a string, and a,
\* a struct
SimpleUnionWitness ==
    /\ phase = "visited"
    /\ \E k \in SimpleUnionIdx :
           /\ Len(exprs[k].defn[1].data) = 2
           /\ exprs[k].defn[1].data[1].key = vb
           /\ exprs[k].defn[1].data[1].type = nstr
           /\ exprs[k].defn[1].data[2].key = va
           /\ EntityNamed(exprs[k].defn[1].name).members # <<>>

(***************************************************************************)
(* Properties of error handling.                                           *)
(***************************************************************************)
Assigned == {i \in 1..Len(entity_list) : entity_list[i].module # <<>>}

\* C11: compilation is fail-fast.  Once an error is raised nothing moves
\* any more: no expression is parsed, no entity defined or checked; a
\* compilation that failed has assigned no entity to a module and has
\* called no visitor; the error, once set, is never replaced.
FailFast ==
    [][/\ phase # "error"
       /\ err = NoErr
       /\ (phase' = "error") <=> (err' # NoErr)
       /\ phase' = "error" =>
              /\ visitlog' = <<>>
              /\ \A i \in 1..Len(entity_list') : entity_list'[i].module = <<>>
              /\ \A k \in 1..Len(module_dict') :
                     module_dict'[k].entity_list = <<>>]_vars

\* the check of an entity failed while entities defined after it were
\* still unchecked
FailFastWitness ==
    /\ phase = "error"
    /\ err.msg = "uses unknown type"
    /\ \E i \in 1..Len(entity_list) :
           /\ entity_list[i].info # NoInfo
           /\ ~entity_list[i].checked
    /\ Assigned = {}
    /\ visitlog = <<>>

(***************************************************************************)
(* Properties of the validation pass (SpecObj).                            *)
(***************************************************************************)
\* the check() call about to run: the top frame has just been entered
Entering == phase = "check" /\ cstack # <<>> /\ Last(cstack).pc = "enter"
Entered == entity_list[Last(cstack).ent]

\* C12: the base check of an entity runs at most once.  The loop of
\* QAPISchema.check() goes through the entities in definition order; the
\* assertion 'not self._checked' never fails; a checked entity stays
\* checked; check() of an object type that is already complete returns at
\* once, changing nothing.
CheckedOnce ==
    [][/\ err'.msg # "AssertionError: not self._checked"
       /\ \A i \in 1..Len(entity_list) :
              entity_list[i].checked =>
                  i <= Len(entity_list') /\ entity_list'[i].checked
       /\ (phase = "check" /\ phase' = "check") => ci' \in {ci, ci + 1}
       /\ (phase' = "check" /\ cstack' = <<>>) =>
              \A i \in 1..(ci' - 1) : entity_list'[i].checked
       /\ (Entering /\ Entered.members # <<>>) =>
              /\ cstack' = Front(cstack)
              /\ err'.msg \notin {"object contains itself",
                                  "AssertionError: not self._checked"}
              /\ \A i \in 1..Len(entity_list) :
                     /\ entity_list'[i].checked = entity_list[i].checked
                     /\ entity_list'[i].cls = "object" =>
                            entity_list'[i].members = entity_list[i].members
      ]_vars

\* the loop reaches an object type that was completed earlier, as the
\* base of a type defined before it
CheckedOnceWitness ==
    /\ Entering
    /\ Len(cstack) = 1
    /\ Entered.members # <<>>
    /\ \E i \in 1..(ci - 1) :
           /\ entity_list[i].cls = "object"
           /\ entity_list[i].base = Entered.name

\* the unions with a discriminator, checked or not
DiscriminatedIdx ==
    {i \in ObjectIdx :
        /\ entity_list[i].variants # <<>>
        /\ entity_list[i].variants[1].tag_name # NoName}
TagName(i) == entity_list[i].variants[1].tag_name
\* the base of union i has been resolved and its check() has completed
BaseComplete(i) ==
    /\ entity_list[i].base # NoName
    /\ MembersOf(entity_list[i].base) # <<>>
\* the members the base hands down that a discriminator may name
TagCandidates(i) ==
    {m \in Range(MembersOf(entity_list[i].base)[1]) :
        /\ m.name = TagName(i)
        /\ m.type # NoName
        /\ TypeOf(entity_list, entity_dict, m.type).cls = "enum"
        /\ ~m.optional
        /\ m.ifcond = <<>>}
DiscriminatorErrors ==
    {"discriminator is not a member of 'base'",
     "discriminator member must be of enum type",
     "discriminator member must not be optional",
     "discriminator member must not be conditional"}
\* check() of union i is the call that raised
RaisedIn(i) == phase = "error" /\ cstack # <<>> /\ Last(cstack).ent = i

\* C13: a flat union whose check() has completed has a discriminator that
\* is, by its exact name, a member handed down by the base, of an
\* enumeration type, not optional and not conditional; a union whose base
\* has no such member fails with a discriminator error, none of its
\* branches having been checked.
DiscriminatorValid ==
    \A i \in DiscriminatedIdx :
        /\ entity_list[i].members # <<>> =>
               /\ BaseComplete(i)
               /\ entity_list[i].variants[1].tag_member # <<>>
               /\ entity_list[i].variants[1].tag_member[1]
                      \in TagCandidates(i)
        /\ (RaisedIn(i) /\ BaseComplete(i)) =>
               IF TagCandidates(i) = {}
               THEN /\ err.msg \in DiscriminatorErrors
                    /\ err.who = TagName(i)
                    /\ \A k \in 1..Len(Branches(i)) :
                           Branches(i)[k].type = NoName
               ELSE err.msg \notin DiscriminatorErrors

\* check() of a union raised: the discriminator x_y mangles to the name
\* of the base's member x-y, which is not the same name
DiscriminatorValidWitness ==
    \E i \in DiscriminatedIdx :
        /\ RaisedIn(i)
        /\ BaseComplete(i)
        /\ TagName(i) = nx_y
        /\ \E m \in Range(MembersOf(entity_list[i].base)[1]) :
               m.name = nxy
        /\ err.msg = "discriminator is not a member of 'base'"

\* the unions, checked or not, whose tag member is known and resolved
TaggedIdx ==
    {i \in ObjectIdx :
        /\ entity_list[i].variants # <<>>
        /\ entity_list[i].variants[1].tag_member # <<>>
        /\ entity_list[i].variants[1].tag_member[1].type # NoName}
\* branch k of union i has a resolved type that a branch may not have, or
\* a name that is no value of the discriminator's enumeration
BadBranch(i, k) ==
    LET b == Branches(i)[k]
        t == TypeOf(entity_list, entity_dict, b.type)
    IN  /\ b.type # NoName
        /\ \/ b.name \notin Range(member_names(TagEnum(i)))
           \/ t.cls # "object"
           \/ t.variants # <<>>
BranchErrors == {"branch is not a value of", "branch cannot use"}

\* C14: in a union whose check() has completed every branch is of an
\* object type without variants and is named after a value of the
\* discriminator's enumeration; check() of a union with a branch that is
\* not so raises "is not a value of" or "cannot use" for that branch, and
\* raises them for no other reason.
BranchesValid ==
    \A i \in TaggedIdx :
        /\ entity_list[i].members # <<>> =>
               \A k \in 1..Len(Branches(i)) :
                   /\ Branches(i)[k].type # NoName
                   /\ ~BadBranch(i, k)
        /\ RaisedIn(i) =>
               ((\E k \in 1..Len(Branches(i)) : BadBranch(i, k))
                <=> err.msg \in BranchErrors)
        /\ (RaisedIn(i) /\ err.msg \in BranchErrors) =>
               \E k \in 1..Len(Branches(i)) :
                   /\ BadBranch(i, k)
                   /\ err.who = Branches(i)[k].name
                   /\ \A j \in 1..(k - 1) : ~BadBranch(i, j)
                   /\ err.msg = "branch cannot use" <=>
                          Branches(i)[k].name
                              \in Range(member_names(TagEnum(i)))

\* check() of a flat union raised for its branch of an enumeration type
BranchesValidWitness ==
    \E i \in TaggedIdx :
        /\ RaisedIn(i)
        /\ err.msg = "branch cannot use"
        /\ \E k \in 1..Len(Branches(i)) :
               /\ BadBranch(i, k)
               /\ TypeOf(entity_list, entity_dict,
                         Branches(i)[k].type).cls = "enum"


(***************************************************************************)
(* Properties of commands and events (SpecCmd).                            *)
(***************************************************************************)
\* ent.check() of entity i has returned
PassedCheck(i) ==
    /\ entity_list[i].checked
    /\ \/ phase \in {"check", "error"} /\ i < ci
       \/ phase \in {"setmod", "ready", "visited"}
CommandIdx == {i \in 1..Len(entity_list) : entity_list[i].cls = "command"}
Whitelisted(i) == entity_list[i].name \in Range(pragma.returns_whitelist)
\* the type a result type name stands for: the element of a list, or itself
ResultTarget(name) ==
    IF TypeOf(entity_list, entity_dict, name).cls = "array"
    THEN TypeOf(entity_list, entity_dict, name).element_type_name
    ELSE name
DefinedType(name) == lookup_type(entity_list, entity_dict, name) # <<>>

\* C15: a command with 'returns' whose check() has returned has a defined
\* result type, and unless the command's name is in the pragma's
\* returns-whitelist the result type, or its element type for a list, is an
\* object type; "'returns' cannot take" is raised only for a command that
\* is not whitelisted and whose result (element) type is a defined type
\* that is no object type.
ReturnsObject ==
    /\ \A i \in CommandIdx :
           PassedCheck(i) /\ entity_list[i].ret_type_name # NoName =>
               /\ DefinedType(entity_list[i].ret_type_name)
               /\ ~Whitelisted(i) =>
                      /\ DefinedType(ResultTarget(entity_list[i].ret_type_name))
                      /\ TypeOf(entity_list, entity_dict,
                                ResultTarget(entity_list[i].ret_type_name)).cls
                             = "object"
    /\ phase = "error" /\ err.msg = "'returns' cannot take" =>
           /\ ci \in CommandIdx
           /\ entity_list[ci].name = err.who
           /\ ~Whitelisted(ci)
           /\ entity_list[ci].ret_type_name = err.other
           /\ DefinedType(err.other)
           /\ TypeOf(entity_list, entity_dict, ResultTarget(err.other)).cls
                  # "object"

ReturnsObjectWitness ==
    /\ phase = "visited"
    /\ \E i \in CommandIdx :
           /\ Whitelisted(i)
           /\ entity_list[i].ret_type_name = nE
           /\ TypeOf(entity_list, entity_dict, nE).cls = "enum"
    /\ \E i \in 1..Len(entity_list) : entity_list[i].name = nS


ArgUsers ==
    {i \in 1..Len(entity_list) :
        /\ entity_list[i].cls \in {"command", "event"}
        /\ entity_list[i].arg_type_name # NoName}
ArgType(i) == TypeOf(entity_list, entity_dict, entity_list[i].arg_type_name)
\* the argument type of i is an object type that has variants
ArgVariants(i) ==
    /\ DefinedType(entity_list[i].arg_type_name)
    /\ ArgType(i).cls = "object"
    /\ ArgType(i).variants # <<>>
\* check() of entity i is the call that raised
CheckRaised(i) == phase = "error" /\ ci = i /\ entity_list[i].checked
ArgErrors == {"'data' cannot take", "'data' can take only with 'boxed': true"}

\* C16: a command or event with 'data' whose check() has returned has an
\* argument type that is an object type, with variants only if 'boxed' is
\* true; when the argument type has variants, check() raises the 'boxed'
\* error if 'boxed' is false and no error about the argument if it is true
\* (check() may then still fail on the command's result type); "'data'
\* cannot take" is raised exactly for a defined type that is no object type.
BoxedArg ==
    /\ \A i \in ArgUsers :
           /\ PassedCheck(i) =>
                  /\ DefinedType(entity_list[i].arg_type_name)
                  /\ ArgType(i).cls = "object"
                  /\ ArgType(i).variants # <<>> => entity_list[i].boxed
           /\ CheckRaised(i) /\ ArgVariants(i) =>
                  IF entity_list[i].boxed THEN err.msg \notin ArgErrors
                  ELSE err.msg = "'data' can take only with 'boxed': true"
           /\ CheckRaised(i) /\ err.msg = "'data' cannot take" =>
                  /\ DefinedType(entity_list[i].arg_type_name)
                  /\ ArgType(i).cls # "object"
           /\ CheckRaised(i) /\ DefinedType(entity_list[i].arg_type_name)
                 /\ ArgType(i).cls # "object" => err.msg = "'data' cannot take"

BoxedArgWitness ==
    /\ phase = "visited"
    /\ \E i \in ArgUsers : entity_list[i].cls = "event" /\ ArgVariants(i)
                           /\ entity_list[i].boxed /\ i < entity_dict[nU]

\* C16 as stated: with an argument type that has variants, check() returns
\* if and only if 'boxed' is true
BoxedIffPasses ==
    \A i \in ArgUsers :
        ArgVariants(i) =>
            /\ PassedCheck(i) => entity_list[i].boxed
            /\ CheckRaised(i) => ~entity_list[i].boxed


\* the type names entity i refers to, each with the field check() resolves
\* it into
TypeRef(name, resolved) == [name |-> name, resolved |-> resolved]
MemberRefs(members) ==
    {TypeRef(members[k].type_name, members[k].type) : k \in 1..Len(members)}
TypeRefs(i) ==
    LET ent == entity_list[i]
    IN  {r \in {TypeRef(ent.base_name, ent.base),
                TypeRef(ent.element_type_name, ent.element_type),
                TypeRef(ent.arg_type_name, ent.arg_type),
                TypeRef(ent.ret_type_name, ent.ret_type)} : r.name # NoName}
        \cup MemberRefs(ent.local_members)
        \cup (IF ent.variants = <<>> THEN {}
              ELSE MemberRefs(ent.variants[1].variants))
Validated == phase \in {"setmod", "ready", "visited"}
ReferencedNames ==
    {r.name : r \in UNION {TypeRefs(i) : i \in 1..Len(entity_list)}}

\* C17: once validation has succeeded every type name an entity refers to
\* (member type, base, array element, branch type, command and event
\* argument, command result) is resolved to the type entity of that name,
\* wherever the type is defined; 'uses unknown type' names a referenced
\* name that is no type of the schema.
AllResolved ==
    /\ Validated =>
           \A i \in 1..Len(entity_list) : \A r \in TypeRefs(i) :
               /\ DefinedType(r.name)
               /\ r.resolved = r.name
    /\ phase = "error" /\ err.msg = "uses unknown type" =>
           /\ err.other \in ReferencedNames
           /\ ~DefinedType(err.other)
    /\ (\E n \in ReferencedNames : ~DefinedType(n)) => ~Validated

\* a validated schema whose struct X (defined last) has the base S and a
\* member of type E, and whose command, defined before S, returns [S]
AllResolvedWitness ==
    /\ phase = "visited"
    /\ nX \in DOMAIN entity_dict
    /\ entity_list[entity_dict[nX]].base = nS
    /\ \E i \in CommandIdx :
           /\ entity_list[i].ret_type = nS \o <<"List">>
           /\ i < entity_dict[nS]


(***************************************************************************)
(* Properties of the clash check of a union's branches (SpecObj).          *)
(***************************************************************************)
\* the members check() of object type i puts into seen before the
\* branches: the base's members and the type's own
OwnMembers(i) ==
    (IF entity_list[i].base = NoName THEN <<>>
     ELSE MembersOf(entity_list[i].base)[1]) \o entity_list[i].local_members
BranchMembers(i, k) == MembersOf(Branches(i)[k].type)[1]

\* C18: no member of a branch of a completed union has the mangled name of
\* a member the union has from its base or of its own, while two branches
\* are free to have members of one mangled name: a union's check() raises
\* a collision only between a member of a branch and a base or local
\* member of the union, never between the members of two branches.
BranchSeenFresh ==
    /\ \A i \in CompletedIdx :
           entity_list[i].variants # <<>> =>
               \A k \in 1..Len(Branches(i)) :
               \A n \in 1..Len(BranchMembers(i, k)) :
                   c_name(BranchMembers(i, k)[n].name)
                       \notin Range(CNames(OwnMembers(i)))
    /\ \A i \in ObjectIdx :
           /\ RaisedIn(i)
           /\ entity_list[i].variants # <<>>
           /\ err.msg = "collides with"
           => \E k \in 1..Len(Branches(i)) :
              \E n \in 1..Len(BranchMembers(i, k)) :
              \E o \in 1..Len(OwnMembers(i)) :
                  /\ BranchMembers(i, k)[n].name = err.who
                  /\ OwnMembers(i)[o].name = err.other
                  /\ c_name(err.who) = c_name(err.other)

\* validation is over, and a union has two branches of different types
\* that both have a member of one name
BranchSeenFreshWitness ==
    /\ phase = "visited"
    /\ \E i \in CompletedIdx :
           /\ entity_list[i].variants # <<>>
           /\ \E j, k \in 1..Len(Branches(i)) :
                  /\ Branches(i)[j].type # Branches(i)[k].type
                  /\ BranchMembers(i, j) # <<>>
                  /\ CNames(BranchMembers(i, j)) = CNames(BranchMembers(i, k))


(***************************************************************************)
(* Properties of the implicit types (SpecWrap).                            *)
(***************************************************************************)
IsKindName(n) == n # NoName /\ Last(n) = "Kind"
IsListName(n) == n # NoName /\ Last(n) = "List"
IsImplicitObjectName(n) == startswith(n, <<"q_", "obj_">>)
IsSynthName(n) == IsKindName(n) \/ IsListName(n) \/ IsImplicitObjectName(n)
\* the entities of the name n
Named(el, n) == {i \in 1..Len(el) : el[i].name = n}
\* the entities a step has added
Added == (Len(entity_list) + 1)..Len(entity_list')
DefStep == phase = "def" /\ ci <= Len(exprs)

PassedCondition(t) ==
    IF DefinedType(t) THEN IfType(t) ELSE IfList(<<>>)
\* the branches of the simple union that is defined next, if one is
NextBranches ==
    IF DefStep /\ exprs[ci].kind = "def"
       /\ exprs[ci].defn[1].meta = "union"
       /\ exprs[ci].defn[1].discriminator = NoName
    THEN exprs[ci].defn[1].data ELSE <<>>

\* C20: when a simple union asks for the wrapper of a type that has one,
\* the condition it passes is the one the wrapper has, and the assertion of
\* _make_implicit_object_type never fails.
WrapperConditionStable ==
    /\ \A k \in 1..Len(NextBranches) :
           /\ ~NextBranches[k].list
           /\ WrapperName(NextBranches[k]) \in DOMAIN entity_dict
           => entity_list[entity_dict[WrapperName(NextBranches[k])]].ifcond
                  = PassedCondition(NextBranches[k].type)
    /\ ~(/\ phase = "error"
         /\ err.msg = "AssertionError"
         /\ endswith(err.who, <<"-", "wrapper">>))


(***************************************************************************)
(* Properties of the items of a file (SpecSeq).                            *)
(***************************************************************************)
\* the parser at work has read a definition's documentation block and not
\* yet the item after it
DocPending ==
    /\ phase = "parse"
    /\ TopParser.cur_doc # <<>>
    /\ TopParser.cur_doc[1].symbol # NoName
\* the step appends an expression to the parser at work
ExprAdded ==
    /\ phase = "parse" /\ phase' = "parse"
    /\ Len(pstack') >= Len(pstack)
    /\ Len(pstack'[Len(pstack)].exprs) = Len(TopParser.exprs) + 1

\* C21: after a definition's documentation block the next item either is a
\* definition, which gets the block as its doc, or raises "documentation
\* for 'X' is not followed by the definition" (an include, a pragma,
\* another block, the end of the file); an item that adds an expression
\* leaves no block behind, so a block is attached to one expression at most.
DocFollowed ==
    [][/\ DocPending =>
              \/ /\ phase' = "error"
                 /\ err' = NotFollowed(TopParser.cur_doc)
                 /\ pstack' = pstack
              \/ /\ ExprAdded
                 /\ Len(pstack') = Len(pstack)
                 /\ Last(Last(pstack').exprs).kind = "def"
                 /\ Last(Last(pstack').exprs).defn[1].doc = TopParser.cur_doc
       /\ ExprAdded =>
              /\ pstack'[Len(pstack)].cur_doc = <<>>
              /\ Last(pstack'[Len(pstack)].exprs).kind = "def" =>
                     Last(pstack'[Len(pstack)].exprs).defn[1].doc
                         = TopParser.cur_doc
       /\ phase = "parse" /\ phase' = "error"
             /\ err'.msg = "documentation is not followed by the definition"
             => DocPending /\ err'.who = TopParser.cur_doc[1].symbol]_vars

\* the file b has been included after S was defined with its block, and
\* the block of T in b is followed by the end of b
DocFollowedWitness ==
    /\ phase = "error"
    /\ err = NotFollowed(<<Doc(nT, <<nx>>, <<>>)>>)
    /\ Len(pstack) = 2
    /\ Len(pstack[1].exprs) = 2
    /\ pstack[1].exprs[1].defn[1].doc = <<Doc(nS, <<nx>>, <<>>)>>
    /\ pstack[2].exprs = <<>>
    /\ pstack[2].n = 1


(***************************************************************************)
(* Properties of documentation blocks read line by line (SpecLines)        *)
(***************************************************************************)
\* the block being read, and the step that reads the line l into it
Building == phase = "parse" /\ TopParser.doc # <<>>
CurDoc == TopParser.doc[1]
NextDocOf == Last(pstack').doc[1]
Appended(l) ==
    /\ Building
    /\ phase' = "parse"
    /\ Last(pstack').doc # <<>>
    /\ Last(pstack').lines = Append(TopParser.lines, l)
AfterBlank == TopParser.lines # <<>> /\ Last(TopParser.lines).kind = "blank"

\* C22, as stated: in a definition documentation block a 'Features:' line
\* read in the body or in an argument section switches to the features
\* section.
FeaturesAlwaysSwitches ==
    [][\A l \in DocLines :
          (/\ Appended(l)
           /\ l.kind = "features"
           /\ CurDoc.symbol # NoName
           /\ CurDoc.mode \in {"body", "args"})
          => NextDocOf.mode = "features"]_vars

\* C22, amended: in a definition documentation block a 'Features:' line
\* switches to the features section when it is read in the body, or in an
\* argument section right after a blank line; in the features section a
\* '@name:' line adds the feature section 'name' and no argument section,
\* and once the argument sections are left no argument section is added.
FeaturesSwitches ==
    [][\A l \in DocLines :
          Appended(l) =>
              /\ (/\ l.kind = "features"
                  /\ CurDoc.symbol # NoName
                  /\ \/ CurDoc.mode = "body"
                     \/ CurDoc.mode = "args" /\ AfterBlank)
                 => NextDocOf.mode = "features"
              /\ (l.kind \in {"sym", "symtext"} /\ CurDoc.mode = "features")
                 => /\ NextDocOf.mode = "features"
                    /\ NextDocOf.features = Append(CurDoc.features, l.name)
              /\ CurDoc.mode \in {"features", "various"}
                 => NextDocOf.args = CurDoc.args]_vars

\* a block that documents the argument x, then after a blank line and
\* 'Features:' the feature f
FeaturesSwitchesWitness ==
    /\ Building
    /\ CurDoc.mode = "features"
    /\ CurDoc.args = <<nx>>
    /\ CurDoc.features = <<nf>>
    /\ \E i \in 2..Len(TopParser.lines) :
           /\ TopParser.lines[i].kind = "features"
           /\ TopParser.lines[i - 1].kind = "blank"


\* the order of the line-handling modes
ModeRank(mode) ==
    CASE mode = "body" -> 0
      [] mode = "args" -> 1
      [] mode = "features" -> 2
      [] mode = "various" -> 3

\* C27: while a documentation block is read the line-handling mode never
\* moves backward in the order body, arguments, features, additional
\* sections; additional sections exist only in the last mode, where no
\* argument or feature section is added and no '@name:' line is accepted;
\* in features mode no argument section is added; and no line makes the
\* assertion 'not self.sections' of _start_symbol_section fail.
ModeForward ==
    [][/\ (Building /\ phase' = "parse" /\ Last(pstack').doc # <<>>)
          => /\ ModeRank(NextDocOf.mode) >= ModeRank(CurDoc.mode)
             /\ NextDocOf.sections # <<>> => NextDocOf.mode = "various"
             /\ CurDoc.mode = "various"
                => /\ NextDocOf.args = CurDoc.args
                   /\ NextDocOf.features = CurDoc.features
                   /\ \A l \in DocLines :
                          l.kind \in {"sym", "symtext"} => ~Appended(l)
             /\ CurDoc.mode = "features" => NextDocOf.args = CurDoc.args
       /\ err'.msg \notin {"AssertionError: not self.sections",
                           "IndexError"}]_vars

\* a '@name:' line read after an additional section of a block that has
\* an argument section: it raises the documentation error
ModeForwardWitness ==
    /\ phase = "error"
    /\ err.msg = "can't follow section"
    /\ pstack # <<>>
    /\ TopParser.doc # <<>>
    /\ CurDoc.mode = "various"
    /\ CurDoc.args # <<>>
    /\ CurDoc.sections # <<>>


(***************************************************************************)
(* Properties of feature documentation (SpecDoc)                           *)
(***************************************************************************)
\* the features an entity declares, on itself and on its members
DeclaredFeatures(ent) == NamesOf(ent.features) \cup MemberFeatures(ent)
\* the feature sections of the entity's doc block, none without a block
DocumentedFeatures(i) ==
    IF entity_list[i].doc = <<>> THEN {}
    ELSE SectionNames(ParsedDoc(i).features)
LacksDoc == "feature lacks documentation"
Validated23 == phase \in {"setmod", "ready", "visited"}

\* C23, as stated: validation never completes while an entity declares a
\* feature, on itself or on a member, that no feature section of its
\* documentation names.
FeaturesDocumented ==
    Validated23 =>
        \A i \in 1..Len(entity_list) :
            DeclaredFeatures(entity_list[i]) \subseteq DocumentedFeatures(i)

\* C23, amended: validation never completes while an entity that has a
\* documentation block declares a feature, on itself or on a member, that
\* no feature section of the block names; the error "lacks documentation"
\* is raised by the check loop on an entity with a block, for a feature it
\* declares and its block does not name.
DocumentedFeaturesOnly ==
    /\ Validated23 =>
           \A i \in DocumentedIdx :
               DeclaredFeatures(entity_list[i]) \subseteq DocumentedFeatures(i)
    /\ err.msg = LacksDoc =>
           /\ phase = "error"
           /\ ci \in DocumentedIdx
           /\ err.who \in DeclaredFeatures(entity_list[ci])
           /\ err.who \notin DocumentedFeatures(ci)

\* a struct whose member x declares the feature f, with a doc block that
\* documents x and has no feature section
DocumentedFeaturesOnlyWitness ==
    /\ phase = "error"
    /\ err.msg = LacksDoc
    /\ err.who = nf
    /\ entity_list[ci].cls = "object"
    /\ entity_list[ci].features = <<>>
    /\ nf \in FeaturesIn(entity_list[ci].local_members)
    /\ SectionNames(ParsedDoc(ci).args) = {nx}


(***************************************************************************)
(* When the sections of a doc block are checked (SpecDoc)                  *)
(***************************************************************************)
\* C26, as stated: "documented member ... does not exist" is raised only
\* when the check() of every entity has run.
DocCheckedAtEnd ==
    err.msg = NoSuchMember =>
        \A i \in 1..Len(entity_list) : entity_list[i].checked

\* C26, amended: the sections of an entity's doc block are checked in the
\* validation loop right after the entity's own check(), not after the
\* loop.  "documented member ... does not exist" is raised for an entity
\* whose check() has run, whatever the entities after it are; and whenever
\* validation fails at an entity, with this or any other error, the doc
\* blocks of the entities before it have no section without a member: an
\* earlier doc error is reported before a later semantic error.
DocCheckedPerEntity ==
    /\ err.msg = NoSuchMember =>
           /\ phase = "error"
           /\ ci \in DocumentedIdx
           /\ entity_list[ci].checked
           /\ Undocumentable(ci) # {}
    /\ (phase = "error" /\ pstack = <<>> /\ ci \in 1..Len(entity_list)) =>
           \A i \in DocumentedIdx : i < ci => Undocumentable(i) = {}

\* the doc block of S documents y, which S does not have; the later
\* struct Z has a member of the unknown type Q and its check() has not
\* run: the documentation error is the one reported
DocCheckedPerEntityWitness ==
    /\ phase = "error"
    /\ err.msg = NoSuchMember
    /\ entity_list[ci].name = nS
    /\ \E j \in (ci + 1)..Len(entity_list) :
           /\ entity_list[j].name = <<"Z">>
           /\ ~entity_list[j].checked
           /\ \E k \in 1..Len(entity_list[j].local_members) :
                  entity_list[j].local_members[k].type_name
                      \notin DOMAIN entity_dict


(***************************************************************************)
(* Properties of error columns (SpecCol)                                   *)
(***************************************************************************)
\* the characters before the cursor, up to the k-th
UpTo(k) == SubSeq(TopParser.src, 1, k)

\* C24: the column starts at 1; a character that is not a tab advances it
\* by one; a tab advances it to the next tab stop (9, 17, 25, ...); so the
\* column never decreases along a line, is strictly greater after a tab,
\* and the column of an error raised is that of the place of the cursor.
ColumnAdvances ==
    /\ phase = "parse" =>
           /\ make(UpTo(0)) = 1
           /\ \A k \in 1..Len(TopParser.src) :
                  IF TopParser.src[k] = Tab
                  THEN /\ make(UpTo(k)) > make(UpTo(k - 1))
                       /\ make(UpTo(k)) % 8 = 1
                  ELSE make(UpTo(k)) = make(UpTo(k - 1)) + 1
    /\ (phase = "error" /\ err.msg = "stray character") =>
           /\ TopParser.col >= 1
           /\ \A k \in 1..Len(TopParser.src) :
                  /\ make(UpTo(k)) >= make(UpTo(k - 1))
                  /\ TopParser.col >= make(UpTo(k))


(***************************************************************************)
(* Properties of pragma directives (SpecPragma)                            *)
(***************************************************************************)
\* the directives handed to QAPISchemaPragma.parse so far
Directives == IF pstack = <<>> THEN <<>> ELSE TopParser.pragmas
\* does the directive name the option, and to what value
Names(d, opt) == \E k \in 1..Len(d.body) : d.body[k].name = opt
ValueIn(d, opt) ==
    d.body[CHOOSE k \in 1..Len(d.body) : d.body[k].name = opt].value
\* a directive the claim calls well formed
KnownOptions == {"doc-required", "returns-whitelist", "name-case-whitelist"}
WellTyped(o) ==
    IF o.name = "doc-required" THEN o.value.bool # <<>>
    ELSE o.value.isList /\ o.value.allstr
WellFormed(d) ==
    /\ d.keys = {"pragma"}
    /\ d.isDict
    /\ \A k \in 1..Len(d.body) :
           d.body[k].name \in KnownOptions /\ WellTyped(d.body[k])
\* the directives that name the option
Naming(opt) == {i \in 1..Len(Directives) : Names(Directives[i], opt)}
LastNaming(opt) == CHOOSE i \in Naming(opt) : \A j \in Naming(opt) : j <= i
PragmaErrors ==
    {"pragma 'doc-required' must be boolean",
     "pragma returns-whitelist must be a list of strings",
     "pragma name-case-whitelist must be a list of strings",
     "unknown pragma", "invalid 'pragma' directive",
     "value of 'pragma' must be an object"}

\* C25: while the file is parsed every directive read was well formed and
\* every option has the value given by the last directive that names it,
\* or its default if none does; a compilation that fails with a pragma
\* error has just read a directive that is not well formed, and one that
\* read such a directive has failed.
PragmaMerged ==
    /\ phase = "parse" =>
           /\ \A i \in 1..Len(Directives) : WellFormed(Directives[i])
           /\ pragma.doc_required =
                  IF Naming("doc-required") = {} THEN FALSE
                  ELSE ValueIn(Directives[LastNaming("doc-required")],
                               "doc-required").bool[1]
           /\ pragma.returns_whitelist =
                  IF Naming("returns-whitelist") = {} THEN <<>>
                  ELSE ValueIn(Directives[LastNaming("returns-whitelist")],
                               "returns-whitelist").elts
           /\ pragma.name_case_whitelist =
                  IF Naming("name-case-whitelist") = {} THEN <<>>
                  ELSE ValueIn(Directives[LastNaming("name-case-whitelist")],
                               "name-case-whitelist").elts
    /\ (phase = "error" /\ err.msg \in PragmaErrors) =>
           /\ Directives # <<>>
           /\ ~WellFormed(Last(Directives))
    /\ (\E i \in 1..Len(Directives) : ~WellFormed(Directives[i])) =>
           /\ phase = "error"
           /\ err.msg \in PragmaErrors

\* three directives were read: the first set returns-whitelist, the
\* second doc-required, the third name-case-whitelist, and all three
\* options have the values given
PragmaMergedWitness ==
    /\ phase = "parse"
    /\ Len(Directives) = 3
    /\ Names(Directives[1], "returns-whitelist")
    /\ ~Names(Directives[2], "returns-whitelist")
    /\ ~Names(Directives[3], "returns-whitelist")
    /\ pragma.returns_whitelist = <<nC>>
    /\ pragma.doc_required
    /\ pragma.name_case_whitelist = <<nS>>


(***************************************************************************)
(* Properties of numeric alternate branches (SpecAlt)                      *)
(***************************************************************************)
IntegerTypes ==
    {<<"int">>, <<"int8">>, <<"int16">>, <<"int32">>, <<"int64">>,
     <<"uint8">>, <<"uint16">>, <<"uint32">>, <<"uint64">>, <<"size">>}
BranchTypeName(i, k) == AltBranches(i)[k].type_name
\* branch k1 is of an integer type and branch k2 of number or of another
\* integer type
NumericPair(i, k1, k2) ==
    /\ k1 # k2
    /\ BranchTypeName(i, k1) \in IntegerTypes
    /\ \/ BranchTypeName(i, k2) = <<"number">>
       \/ /\ BranchTypeName(i, k2) \in IntegerTypes
          /\ BranchTypeName(i, k2) # BranchTypeName(i, k1)
HasNumericPair(i) ==
    \E k1, k2 \in 1..Len(AltBranches(i)) : NumericPair(i, k1, k2)

\* C28: check() of an alternate with a branch of an integer type and a
\* branch of number, or with branches of two different integer types,
\* never returns normally; when these are its only branches it raises
\* "can't be distinguished from" on the second, naming the first; the
\* integer types and number are of the one kind QTYPE_QNUM.
NumericIndistinct ==
    /\ \A i \in AltIdx :
           HasNumericPair(i) =>
               /\ ~AltPassed(i)
               /\ (AltFailed(i) /\ Len(AltBranches(i)) = 2) =>
                      /\ Indistinct(i)
                      /\ err.who = AltBranches(i)[2].name
                      /\ err.other = AltBranches(i)[1].name
    /\ \A i \in 1..Len(entity_list) :
           (/\ entity_list[i].cls = "builtin"
            /\ entity_list[i].name \in IntegerTypes \cup {<<"number">>})
           => alternate_qtype(entity_list[i]) = "QTYPE_QNUM"

\* an alternate with the branches b1 of type int8 and b2 of type int was
\* rejected as indistinguishable
NumericIndistinctWitness ==
    /\ phase = "error"
    /\ ci \in AltIdx
    /\ Indistinct(ci)
    /\ Len(AltBranches(ci)) = 2
    /\ BranchTypeName(ci, 1) = <<"int8">>
    /\ BranchTypeName(ci, 2) = <<"int">>


(***************************************************************************)
(* Properties of self-referential object types (SpecRec)                   *)
(***************************************************************************)
IndexOf(name) ==
    IF name \in DOMAIN entity_dict THEN {entity_dict[name]} ELSE {}
\* the types an object type contains by value: its base, its branches
BranchTypeNames(ent) ==
    IF ent.variants = <<>> THEN {}
    ELSE {ent.variants[1].variants[k].type_name :
              k \in 1..Len(ent.variants[1].variants)}
ByValue(i) ==
    IndexOf(entity_list[i].base_name)
        \cup UNION {IndexOf(n) : n \in BranchTypeNames(entity_list[i])}
\* the types of its local members
ByMember(i) ==
    UNION {IndexOf(entity_list[i].local_members[k].type_name) :
               k \in 1..Len(entity_list[i].local_members)}

\* C29: check() of an object type calls check() of its base and of its
\* branch types only: every frame of the stack of check() calls but the
\* first is the base or a branch type of the frame below.  "contains
\* itself" is raised only for a type that contains itself through bases
\* and branches; a type that refers to itself through local members only
\* is not rejected for it, and when validation has completed every object
\* type has its member list, with every local member's type resolved.
LocalMembersNotContained ==
    /\ \A k \in 1..(Len(cstack) - 1) :
           /\ cstack[k + 1].ent \in ByValue(cstack[k].ent)
           /\ cstack[k].pc \in {"base", "variant"}
    /\ err.msg = "object contains itself" =>
           /\ err.who \in DOMAIN entity_dict
           /\ ContainsItself(entity_dict[err.who])
    /\ phase \in {"setmod", "ready", "visited"} =>
           \A i \in ObjectIdx :
               /\ entity_list[i].members # <<>>
               /\ ~ContainsItself(i)
               /\ \A k \in 1..Len(entity_list[i].local_members) :
                      entity_list[i].local_members[k].type
                          = entity_list[i].local_members[k].type_name

\* S has a local member of type T and T one of type S; validation has
\* completed and both have their member lists
LocalMembersNotContainedWitness ==
    /\ phase = "ready"
    /\ nS \in DOMAIN entity_dict
    /\ nT \in DOMAIN entity_dict
    /\ entity_dict[nT] \in ByMember(entity_dict[nS])
    /\ entity_dict[nS] \in ByMember(entity_dict[nT])
    /\ entity_list[entity_dict[nS]].members # <<>>
    /\ entity_list[entity_dict[nT]].members # <<>>


(***************************************************************************)
(* Properties of the introspection visitor (SpecIntroFair).                *)
(***************************************************************************)
Generated == vis.stage = "done"
TypeTrees ==
    SelectSeq(vis.out, LAMBDA t : t.mtype \notin {"command", "event"})

\* the type name a masked name of the output stands for, from the comment
\* of the tree that carries the masked name
Unmasked(shown) ==
    IF \E i \in 1..Len(vis.out) :
          /\ vis.out[i].comment # <<>>
          /\ vis.out[i].comment[1].shown = shown
    THEN vis.out[CHOOSE i \in 1..Len(vis.out) :
                    /\ vis.out[i].comment # <<>>
                    /\ vis.out[i].comment[1].shown = shown].comment[1].of
    ELSE shown

\* the type of the schema a tree of the output describes
TreeType(t) ==
    CASE t.mtype = "array" -> Unmasked(t.obj[1].type) \o <<"List">>
      [] t.comment # <<>> -> t.comment[1].of
      [] OTHER -> t.name

Emitted == [i \in 1..Len(TypeTrees) |-> TreeType(TypeTrees[i])]

SchemaType(name) == entity_list[entity_dict[name]]
IsInteger(name) ==
    /\ SchemaType(name).cls = "builtin"
    /\ SchemaType(name).json_type = "int"
\* every integer type stands for 'int', every list of one for the list of
\* 'int'
Collapsed(name) ==
    IF IsInteger(name) THEN <<"int">>
    ELSE IF /\ SchemaType(name).cls = "array"
            /\ IsInteger(SchemaType(name).element_type)
    THEN <<"int", "List">>
    ELSE name

OrEmpty(name) == IF name = NoName THEN <<"q_", "empty">> ELSE name
\* the types an entity refers to: argument and result of a command or
\* event (the empty object type where it has none), element of an array,
\* members (own and inherited) and branches of an object, branches of an
\* alternate
RefTypes(ent) ==
    CASE ent.cls = "command" ->
             {OrEmpty(ent.arg_type), OrEmpty(ent.ret_type)}
      [] ent.cls = "event" -> {OrEmpty(ent.arg_type)}
      [] ent.cls = "array" -> {ent.element_type}
      [] ent.cls = "object" ->
             {ent.members[1][k].type : k \in 1..Len(ent.members[1])}
             \cup (IF ent.variants = <<>> THEN {}
                   ELSE {ent.variants[1].variants[k].type :
                            k \in 1..Len(ent.variants[1].variants)})
      [] ent.cls = "alternate" ->
             {ent.variants[1].variants[k].type :
                 k \in 1..Len(ent.variants[1].variants)}
      [] OTHER -> {}

Roots ==
    UNION {RefTypes(entity_list[i]) :
              i \in {j \in 1..Len(entity_list) :
                        entity_list[j].cls \in {"command", "event"}}}

RECURSIVE Closure(_)
Closure(types) ==
    Bind(types \cup UNION {RefTypes(SchemaType(t)) : t \in types},
         LAMBDA more : IF more = types THEN types ELSE Closure(more))

Reachable == {Collapsed(t) : t \in Closure(Roots)}

WorklistSafe ==
    /\ vis.stage = "visit" =>
          /\ vis.pos <= Len(vis.used_types)
          /\ Cardinality(Range(vis.used_types)) = Len(vis.used_types)
          /\ vis.pos = 0 =>
                \A i \in 1..Len(vis.trees) :
                   vis.trees[i].mtype \in {"command", "event"}
    /\ Generated =>
          /\ Range(Emitted) = Reachable
          /\ Cardinality(Range(Emitted)) = Len(Emitted)

\* C30: in gen_introspect, the traversal of the modules emits no type; the
\* loop of visit_end over the growing list of used types ends; when it
\* has, the types emitted are exactly the types some command or event
\* reaches through argument, result, member, element and branch types,
\* integer types counted as 'int', and each is emitted once.
UsedTypesEmitted ==
    /\ []WorklistSafe
    /\ (vis.stage = "visit") ~> Generated

\* a schema whose struct S contains itself or T, whose integer member is
\* emitted as 'int', with a user-defined type no command or event reaches,
\* and whose list of used types grew after the modules were traversed
UsedTypesEmittedWitness ==
    /\ Generated
    /\ <<"int">> \in Range(Emitted)
    /\ \E n \in {nS, nT} :
          /\ n \in DOMAIN entity_dict
          /\ n \notin Reachable
    /\ \E n \in {nS, nT} :
          /\ n \in Range(Emitted)
          /\ n \in Closure(RefTypes(SchemaType(n)))
    /\ Range(Emitted) # {Collapsed(t) : t \in Roots}

=============================================================================
